---- MODULE Spec2Model ----
(***************************************************************************)
(* Statement field-extraction engine of VAMP (statementParser.js, v4):     *)
(* PDF dialect extractors, format detection, CSV column mapper and the     *)
(* batch aggregator, modelled as state machines over concrete text.        *)
(*                                                                         *)
(* Text is kept as TLA+ strings and every helper works on characters, as   *)
(* the JavaScript does.  JavaScript null is the empty tuple <<>> and a     *)
(* present value v is the one-element tuple <<v>>, so that null and 0 are  *)
(* different values.  Dollar amounts are integers in cents.                *)
(***************************************************************************)
EXTENDS Integers, Sequences, FiniteSets, TLC

VARIABLES
  lines,     \* the reconstructed lines of the document being processed
  dialect,   \* the extractor walking them: "firstdata" or "chase"
  i,         \* the loop index of the extractor (0-based, as in the source)
  st,        \* the extractor's local variables
  result,    \* what the running function returned, null while it runs
  pc,        \* the position of the running function
  file,      \* the File given to parsePDFStatement / parseCSVStatement
  files,     \* the File list given to parseStatements
  settled,   \* parseStatements: the settled outcome of each file's promise
  hung       \* parseStatements: the files whose decode never calls back

walkVars == <<lines, dialect, i, st, result, pc>>
inputVars == <<file, files, settled, hung>>
vars == <<walkVars, inputVars>>

\* ------------------------------------------------------------------------
\* Bounds of the model
\* ------------------------------------------------------------------------

\* Longest document walked by a dialect extractor
MaxLines == 4

\* ------------------------------------------------------------------------
\* Program constants
\* ------------------------------------------------------------------------

\* /^\d{1,8}$/ of firstInt
MaxIntDigits == 8
\* lines.slice(0, 80) of detectStatementFormat
HeaderWindow == 80
\* parseInt(monthYear[2], 10) >= 2020 of extractPeriodFromLine
MinPeriodYear == 2020
\* (\d{1,6}) of txnPattern in parseFirstDataFields
MaxTxnDigits == 6

\* ------------------------------------------------------------------------
\* JavaScript values
\* ------------------------------------------------------------------------

null == <<>>
Some(v) == <<v>>
IsNull(o) == o = <<>>
Val(o) == o[1]
\* a ?? b
Coalesce(o, d) == IF IsNull(o) THEN d ELSE Val(o)

\* ------------------------------------------------------------------------
\* String primitives (String.prototype.* and the regex character classes)
\* ------------------------------------------------------------------------

\* s.slice(a - 1, b): positions a..b, cut to the string
Slice(s, a, b) ==
  LET hi == IF b > Len(s) THEN Len(s) ELSE b
  IN IF a < 1 \/ a > hi THEN "" ELSE SubSeq(s, a, hi)
CharAt(s, k) == Slice(s, k, k)
From(s, k) == Slice(s, k, Len(s))

DigitChars == {"0", "1", "2", "3", "4", "5", "6", "7", "8", "9"}
UpperAlpha == "ABCDEFGHIJKLMNOPQRSTUVWXYZ"
LowerAlpha == "abcdefghijklmnopqrstuvwxyz"

IsDigit(c) == c \in DigitChars
IsSpace(c) == c \in {" ", "\t", "\n"}
UpperChars == {CharAt(UpperAlpha, k) : k \in 1..26}
LowerChars == {CharAt(LowerAlpha, k) : k \in 1..26}
IsUpper(c) == c \in UpperChars
IsLower(c) == c \in LowerChars
\* \w of a JavaScript regex
IsWordChar(c) == IsDigit(c) \/ IsUpper(c) \/ IsLower(c) \/ c = "_"

DigitVal(c) ==
  CASE c = "0" -> 0 [] c = "1" -> 1 [] c = "2" -> 2 [] c = "3" -> 3
    [] c = "4" -> 4 [] c = "5" -> 5 [] c = "6" -> 6 [] c = "7" -> 7
    [] c = "8" -> 8 [] c = "9" -> 9

toLowerChar(c) ==
  IF IsUpper(c)
    THEN CharAt(LowerAlpha, CHOOSE k \in 1..26 : CharAt(UpperAlpha, k) = c)
    ELSE c

toUpperChar(c) ==
  IF IsLower(c)
    THEN CharAt(UpperAlpha, CHOOSE k \in 1..26 : CharAt(LowerAlpha, k) = c)
    ELSE c

\* character by character; the string is halved to keep the nesting shallow
toLowerCaseOf[s \in STRING] ==
  IF Len(s) = 0 THEN ""
  ELSE IF Len(s) = 1 THEN toLowerChar(s)
  ELSE toLowerCaseOf[Slice(s, 1, Len(s) \div 2)]
         \o toLowerCaseOf[From(s, Len(s) \div 2 + 1)]
toLowerCase(s) == toLowerCaseOf[s]

includes(s, p) ==
  \E k \in 1..(Len(s) - Len(p) + 1) : Slice(s, k, k + Len(p) - 1) = p

startsWith(s, p) == Len(p) <= Len(s) /\ Slice(s, 1, Len(p)) = p

endsWith(s, p) ==
  Len(p) <= Len(s) /\ Slice(s, Len(s) - Len(p) + 1, Len(s)) = p

\* Length of the longest prefix (suffix) of s whose characters all satisfy P
PrefixSpan(s, P(_)) ==
  CHOOSE n \in 0..Len(s) :
    /\ \A j \in 1..n : P(CharAt(s, j))
    /\ (n = Len(s) \/ ~P(CharAt(s, n + 1)))

SuffixSpan(s, P(_)) ==
  CHOOSE n \in 0..Len(s) :
    /\ \A j \in (Len(s) - n + 1)..Len(s) : P(CharAt(s, j))
    /\ (n = Len(s) \/ ~P(CharAt(s, Len(s) - n)))

trimStart(s) == From(s, PrefixSpan(s, IsSpace) + 1)
trimEnd(s) == Slice(s, 1, Len(s) - SuffixSpan(s, IsSpace))
trim(s) == trimEnd(trimStart(s))

\* s.replace(/[chars]/g, '')
removeCharsOf[s \in STRING, chars \in SUBSET STRING] ==
  IF s = "" THEN ""
  ELSE (IF CharAt(s, 1) \in chars THEN "" ELSE CharAt(s, 1))
         \o removeCharsOf[From(s, 2), chars]
removeChars(s, chars) == removeCharsOf[s, chars]

NotSpace(c) == ~IsSpace(c)
spanDigits(s) == PrefixSpan(s, IsDigit)
spanNonSpace(s) == PrefixSpan(s, NotSpace)

AllDigits(s) == \A k \in 1..Len(s) : IsDigit(CharAt(s, k))

\* parseInt(s, 10) of a string of decimal digits
digitsToIntOf[s \in STRING] ==
  IF s = "" THEN 0
  ELSE 10 * digitsToIntOf[Slice(s, 1, Len(s) - 1)] + DigitVal(CharAt(s, Len(s)))
digitsToInt(s) == digitsToIntOf[s]

\* The least element of a non-empty set of positions
FirstOf(S) == CHOOSE a \in S : \A b \in S : a <= b

\* s.split(/\s+/): the maximal runs of non-space characters, in order.  (A
\* leading or trailing space makes JavaScript add an empty string, which no
\* caller's test accepts.)  tokensOf takes a string without leading space.
tokensOf[t \in STRING] ==
  IF t = "" THEN <<>>
  ELSE <<Slice(t, 1, spanNonSpace(t))>>
         \o tokensOf[trimStart(From(t, spanNonSpace(t) + 1))]
splitWS(s) == tokensOf[trimStart(s)]

\* ------------------------------------------------------------------------
\* Field-extraction helpers
\* ------------------------------------------------------------------------

\* p.replace(/[$,()]/g, '')
CleanPart(p) == removeChars(p, {"$", ",", "(", ")"})

\* /^\d{1,8}$/.test(clean)
IsIntPart(clean) ==
  Len(clean) >= 1 /\ Len(clean) <= MaxIntDigits /\ AllDigits(clean)

IntParts(parts) == {k \in 1..Len(parts) : IsIntPart(CleanPart(parts[k]))}

\* firstInt: the first whitespace-separated part that, with $ , ( ) removed,
\* is 1 to 8 decimal digits; null if there is none.
firstInt(line) ==
  IF IntParts(splitWS(line)) = {} THEN null
  ELSE Some(digitsToInt(CleanPart(splitWS(line)[FirstOf(IntParts(splitWS(line)))])))

\* The run [\d,]+ of the regex \$?\s*([\d,]+\.\d{2})
IsAmountChar(c) == IsDigit(c) \/ c = ","
spanAmount(s) == PrefixSpan(s, IsAmountChar)

\* The n characters from position k are a maximal run of digits and commas
\* that is followed by a point and two digits.
DollarShape(line, k, n) ==
  /\ n >= 1
  /\ (k = 1 \/ ~IsAmountChar(CharAt(line, k - 1)))
  /\ k + n + 2 <= Len(line)
  /\ CharAt(line, k + n) = "."
  /\ IsDigit(CharAt(line, k + n + 1))
  /\ IsDigit(CharAt(line, k + n + 2))

DollarAt(line, k) == DollarShape(line, k, spanAmount(From(line, k)))

\* parseFloat(m[1].replace(/,/g, '')), in cents
DollarValue(line, k, n) ==
  100 * digitsToInt(removeChars(Slice(line, k, k + n - 1), {","}))
    + digitsToInt(Slice(line, k + n + 1, k + n + 2))

DollarStarts(line) == {k \in 1..Len(line) : DollarAt(line, k)}

DollarFrom(line, k) == DollarValue(line, k, spanAmount(From(line, k)))

\* firstDollar: the first dollar/decimal amount of the line, in cents.
firstDollar(line) ==
  IF DollarStarts(line) = {} THEN null
  ELSE Some(DollarFrom(line, FirstOf(DollarStarts(line))))

MonthNamesLong ==
  <<"January", "February", "March", "April", "May", "June", "July",
    "August", "September", "October", "November", "December">>

IsLeapYear(y) == (y % 4 = 0 /\ y % 100 # 0) \/ y % 400 = 0

\* Days of month index m (0..11) of year y
DaysInMonth(y, m) ==
  IF m = 1 THEN (IF IsLeapYear(y) THEN 29 ELSE 28)
  ELSE IF m \in {3, 5, 8, 10} THEN 30 ELSE 31

\* new Date(y, m, d) carries a day past the end of the month forward
CarryDaysOf[ym \in Int, d \in Int] ==
  IF d > DaysInMonth(ym \div 12, ym % 12)
    THEN CarryDaysOf[ym + 1, d - DaysInMonth(ym \div 12, ym % 12)]
    ELSE ym
CarryDays(ym, d) == CarryDaysOf[ym, d]

\* The month count ym (12 * year + month index) as "January 2026"
MonthLabel(ym) == MonthNamesLong[(ym % 12) + 1] \o " " \o ToString(ym \div 12)

\* new Date(year, monthIndex, day).toLocaleDateString('en-US',
\*   {month: 'long', year: 'numeric'}); a year 0..99 means 1900 + year, a
\* month index outside 0..11 and a day outside the month carry over.
FormatDate(year, monthIndex, day) ==
  MonthLabel(IF day = 0
               THEN (IF year <= 99 THEN 1900 + year ELSE year) * 12 + monthIndex - 1
               ELSE CarryDays((IF year <= 99 THEN 1900 + year ELSE year) * 12 + monthIndex, day))

\* s begins with \d{1,2}\/
NumSlash(s) == spanDigits(s) \in {1, 2} /\ CharAt(s, spanDigits(s) + 1) = "/"
\* what follows that prefix, and the number in it
AfterSlash(s) == From(s, spanDigits(s) + 2)
LeadingInt(s) == digitsToInt(Slice(s, 1, spanDigits(s)))

\* s begins with \d{1,2}\/\d{1,2}\/\d{4}
IsDatePrefix(s) ==
  /\ NumSlash(s)
  /\ NumSlash(AfterSlash(s))
  /\ spanDigits(AfterSlash(AfterSlash(s))) >= 4

\* <<month, day, year>> of that date and the length of its text
DateOf(s) ==
  <<LeadingInt(s), LeadingInt(AfterSlash(s)),
    digitsToInt(Slice(AfterSlash(AfterSlash(s)), 1, 4))>>
DateLen(s) == Len(s) - Len(AfterSlash(AfterSlash(s))) + 4

\* s ends with \d{1,2}\/\d{1,2}\/\d{4}
DateSuffix(s) ==
  \E j \in 1..Len(s) :
    IsDatePrefix(From(s, j)) /\ DateLen(From(s, j)) = Len(s) - j + 1

\* Pattern 1 of extractPeriodFromLine matched at parts k, k+1, k+2
RangeAt(parts, k) ==
  /\ k + 2 <= Len(parts)
  /\ DateSuffix(parts[k])
  /\ toLowerCase(parts[k + 1]) \in {"through", "to"}
  /\ IsDatePrefix(parts[k + 2])

\* low ends with name, and no word character stands before it (\bname)
EndsWithWord(low, name) ==
  /\ endsWith(low, name)
  /\ (Len(low) = Len(name) \/ ~IsWordChar(CharAt(low, Len(low) - Len(name))))

MonthsEnding(part) ==
  {m \in 1..12 : EndsWithWord(toLowerCase(part), toLowerCase(MonthNamesLong[m]))}

\* The month name that ends the part after a word boundary (index 1..12), or 0
MonthSuffix(part) ==
  IF MonthsEnding(part) = {} THEN 0 ELSE CHOOSE m \in MonthsEnding(part) : TRUE

\* The part begins with 20\d{2} followed by a word boundary
YearPrefix(part) ==
  /\ Len(part) >= 4
  /\ Slice(part, 1, 2) = "20"
  /\ IsDigit(CharAt(part, 3)) /\ IsDigit(CharAt(part, 4))
  /\ (Len(part) = 4 \/ ~IsWordChar(CharAt(part, 5)))

\* Pattern 2 of extractPeriodFromLine matched at parts k, k+1
MonthYearAt(parts, k) ==
  k + 1 <= Len(parts) /\ MonthSuffix(parts[k]) # 0 /\ YearPrefix(parts[k + 1])

\* Pattern 1: the end date <<month, day, year>> formatted
RangePeriod(d) == Some(FormatDate(d[3], d[1] - 1, d[2]))

\* Pattern 2: month name and year, if the year is at least 2020
MonthYearPeriod(month, year) ==
  IF digitsToInt(year) >= MinPeriodYear
    THEN Some(MonthNamesLong[month] \o " " \o year)
    ELSE null

Ranges(parts) == {k \in 1..Len(parts) : RangeAt(parts, k)}
MonthYears(parts) == {k \in 1..Len(parts) : MonthYearAt(parts, k)}

PeriodOfParts(parts) ==
  IF Ranges(parts) # {}
    THEN RangePeriod(DateOf(parts[FirstOf(Ranges(parts)) + 2]))
  ELSE IF MonthYears(parts) # {}
    THEN MonthYearPeriod(MonthSuffix(parts[FirstOf(MonthYears(parts))]),
                         Slice(parts[FirstOf(MonthYears(parts)) + 1], 1, 4))
  ELSE null

\* extractPeriodFromLine: "January 2026" from a date range (its end date) or
\* from a month name followed by a year >= 2020; null otherwise.
extractPeriodFromLine(line) == PeriodOfParts(splitWS(line))

\* ------------------------------------------------------------------------
\* Line tests shared by the dialect extractors
\* ------------------------------------------------------------------------

\* phrases.some((p) => s.includes(p))
includesAny(s, phrases) == \E p \in phrases : includes(s, p)
startsWithAny(s, phrases) == \E p \in phrases : startsWith(s, p)

\* The part begins with the word w and a word boundary follows (w\b)
WordPrefix(part, w) ==
  startsWith(part, w)
    /\ (Len(part) = Len(w) \/ ~IsWordChar(CharAt(part, Len(w) + 1)))

\* /^\s*total\b/i
IsTotalRow(lower) == WordPrefix(lower, "total")

\* /^a\s+b\b/ for a in firsts and b in seconds, on the parts of the line
TwoWords(parts, firsts, seconds) ==
  /\ Len(parts) >= 2
  /\ parts[1] \in firsts
  /\ \E w \in seconds : WordPrefix(parts[2], w)

TwoWordPrefix(lower, firsts, seconds) == TwoWords(splitWS(lower), firsts, seconds)

\* /page\s+\d+/i on the parts of the line
HasPageNumber(parts) ==
  \E k \in 1..(Len(parts) - 1) :
    endsWith(parts[k], "page") /\ IsDigit(CharAt(parts[k + 1], 1))

\* lower.startsWith('page ') && /page\s+\d+/i.test(lower)
IsPageLine(lower) == startsWith(lower, "page ") /\ HasPageNumber(splitWS(lower))

GROSS_LABELS ==
  {"total amount submitted", "total gross sales you submitted",
   "gross sales you submitted", "total sales submitted", "total submitted"}

NO_CB_PHRASES ==
  {"no chargebacks/reversals for this statement period",
   "no chargeback/reversal for this statement period",
   "no chargebacks for this statement period",
   "no chargebacks"}

CARD_TYPE_PREFIXES ==
  {"visa", "mastercard", "master card", "mc ", "discover", "american express",
   "amex", "jcb", "diners", "debit", "pin debit", "fleet", "voyager",
   "wright express", "wex", "check", "ach"}

NETWORK_FEE_KEYWORDS ==
  {"ntwk", "network access", "pre-auth fee", "acquirer processing",
   "auth fee", "assessment", "brand fee", "digital enablement", "kilobyte",
   "service fee", "zero floor", "misuse", "licence fee"}

\* Mastercard rows: "mastercard", "master card", "mc" (but not "misc")
IsMCRow(lower) ==
  \/ startsWith(lower, "mastercard")
  \/ startsWith(lower, "master card")
  \/ (startsWith(lower, "mc") /\ ~startsWith(lower, "misc"))

IsVisaRow(lower) == startsWith(lower, "visa")

\* /(\d{1,6})\s+TRANS(?:ACTIONS?)?\s+AT\s+/i matches at parts k..k+2
TxnAt(line, parts, k) ==
  /\ k + 2 <= Len(parts)
  /\ IsDigit(CharAt(parts[k], Len(parts[k])))
  /\ toLowerCase(parts[k + 1]) \in {"trans", "transaction", "transactions"}
  /\ toLowerCase(parts[k + 2]) = "at"
  /\ (k + 3 <= Len(parts) \/ IsSpace(CharAt(line, Len(line))))

TxnHits(line, parts) == {k \in 1..Len(parts) : TxnAt(line, parts, k)}

digitSuffixLen(s) == SuffixSpan(s, IsDigit)

\* The last n digits of the part, at most MaxTxnDigits of them, as a number
LastDigits(part, n) ==
  digitsToInt(Slice(part,
                    Len(part) - (IF n > MaxTxnDigits THEN MaxTxnDigits ELSE n) + 1,
                    Len(part)))

TxnOfParts(line, parts) ==
  IF TxnHits(line, parts) = {} THEN null
  ELSE Some(LastDigits(parts[FirstOf(TxnHits(line, parts))],
                       digitSuffixLen(parts[FirstOf(TxnHits(line, parts))])))

\* line.match(txnPattern): the captured count, or null
txnMatch(line) == TxnOfParts(line, splitWS(line))

\* ------------------------------------------------------------------------
\* First Data / ServeFirst extractor: the tests it makes on one line
\* ------------------------------------------------------------------------

\* lower.includes('chargeback') && lower.includes('reversal')
IsCbReversalLine(lower) == includes(lower, "chargeback") /\ includes(lower, "reversal")

\* lower.startsWith('total chargeback') && !lower.includes('amount')
IsTotalCbRow(lower) == startsWith(lower, "total chargeback") /\ ~includes(lower, "amount")

IsFDCardHeading(lower) ==
  includes(lower, "summary by card type") \/ includes(lower, "card type summary")

IsFDInterchangeStart(lower) ==
  \/ includes(lower, "interchange")
  \/ lower = "fee detail" \/ lower = "fee summary"
  \/ startsWith(lower, "fee detail") \/ startsWith(lower, "fee summary")

IsFDCardSectionEnd(lower) ==
  \/ includesAny(lower, {"summary by day", "summary by batch", "adjustment detail",
                         "fee detail", "chargeback detail"})
  \/ IsPageLine(lower)

IsFDColumnHeader(lower) ==
  includesAny(lower, {"items", "net amount", "submitted", "reversals"})

IsFDAdjustment(lower) == startsWith(lower, "adjustment") \/ includes(lower, "adjustment")

IsFDTotalRow(lower) ==
  IsTotalRow(lower) /\ ~includesAny(lower, {"amount", "gross", "submitted"})

IsFDInterchangeEnd(lower) ==
  \/ includesAny(lower, {"chargeback detail", "discount summary", "summary by day"})
  \/ IsPageLine(lower)

IsMCTotalRow(lower) ==
  \/ TwoWordPrefix(lower, {"mc", "mastercard"}, {"total"})
  \/ TwoWordPrefix(lower, {"total"}, {"mc", "mastercard"})

IsVSTotalRow(lower) ==
  \/ TwoWordPrefix(lower, {"vs", "visa"}, {"total"})
  \/ TwoWordPrefix(lower, {"total"}, {"vs", "visa"})

IsMCLine(lower) == startsWith(lower, "mc") \/ startsWith(lower, "mastercard")

IsVSLine(lower) ==
  \/ startsWith(lower, "vs ") \/ startsWith(lower, "vs-")
  \/ (startsWith(lower, "visa") /\ ~startsWith(lower, "visa debit"))

\* Everything parseFirstDataFields reads off one line (lower: the line
\* lowercased and trimmed, as at the top of its loop body)
FDScan(line, lower) ==
     [period            |-> extractPeriodFromLine(line),
      dollar            |-> firstDollar(line),
      int               |-> firstInt(line),
      txn               |-> txnMatch(line),
      noCb              |-> includesAny(lower, NO_CB_PHRASES),
      gross             |-> includesAny(lower, GROSS_LABELS),
      cbReversal        |-> IsCbReversalLine(lower),
      totalCb           |-> IsTotalCbRow(lower),
      cardHeading       |-> IsFDCardHeading(lower),
      interchangeStart  |-> IsFDInterchangeStart(lower),
      cardSectionEnds   |-> IsFDCardSectionEnd(lower),
      endOpensInterchange |-> includes(lower, "fee detail") \/ includes(lower, "interchange"),
      columnHeader      |-> IsFDColumnHeader(lower),
      adjustment        |-> IsFDAdjustment(lower),
      totalRow          |-> IsFDTotalRow(lower),
      startsWithCardType |-> startsWithAny(lower, CARD_TYPE_PREFIXES),
      isMC              |-> IsMCRow(lower),
      isVisa            |-> IsVisaRow(lower),
      interchangeEnds   |-> IsFDInterchangeEnd(lower),
      mcTotalRow        |-> IsMCTotalRow(lower),
      vsTotalRow        |-> IsVSTotalRow(lower),
      isMCLine          |-> IsMCLine(lower),
      isVSLine          |-> IsVSLine(lower),
      networkFee        |-> includesAny(lower, NETWORK_FEE_KEYWORDS)]

\* ------------------------------------------------------------------------
\* parseFirstDataFields: locals, one loop iteration, post-loop resolution
\* ------------------------------------------------------------------------

FDLocals ==
  [grossVolume |-> null, salesCount |-> null, chargebackCount |-> null,
   mcCardSum |-> 0, visaCardSum |-> 0, mcCardFound |-> FALSE, visaCardFound |-> FALSE,
   mcInterchangeTotal |-> null, mcInterchangeSum |-> 0,
   vsInterchangeTotal |-> null, vsInterchangeSum |-> 0,
   statementPeriod |-> null,
   inCardTypeSection |-> FALSE, inInterchangeSection |-> FALSE,
   cardSectionItemSum |-> 0, cardSectionRowsFound |-> 0, cbSectionFound |-> FALSE]

\* 0. Statement period: first match wins
FDPeriod(s, L) ==
  IF IsNull(s.statementPeriod) THEN [s EXCEPT !.statementPeriod = L.period] ELSE s

\* Mutant of FDGross: a later label line overwrites the gross volume
FDGrossLastWins(s, L, d1, d2) ==
  LET val == IF ~IsNull(L.dollar) THEN L.dollar
             ELSE IF ~IsNull(d1) THEN d1 ELSE d2
  IN IF L.gross /\ ~IsNull(val) /\ Val(val) > 0
       THEN [s EXCEPT !.grossVolume = val] ELSE s

\* 1. Gross volume: the amount on the label's line or on one of the next two
\* (d1, d2: firstDollar of lines[i+1], lines[i+2]; null past the end)
FDGross(s, L, d1, d2) ==
  LET val == IF ~IsNull(L.dollar) THEN L.dollar
             ELSE IF ~IsNull(d1) THEN d1 ELSE d2
  IN IF IsNull(s.grossVolume) /\ L.gross /\ ~IsNull(val) /\ Val(val) > 0
       THEN [s EXCEPT !.grossVolume = val] ELSE s

\* 2. "No Chargebacks" phrase
FDNoChargebacks(s, L) ==
  IF IsNull(s.chargebackCount) /\ L.noCb
    THEN [s EXCEPT !.chargebackCount = Some(0)] ELSE s

\* 3. page-1 "Chargebacks/Reversals $0.00"
FDChargebackReversal(s, L) ==
  IF IsNull(s.chargebackCount) /\ L.cbReversal
    THEN [s EXCEPT !.cbSectionFound = TRUE,
                   !.chargebackCount =
                      IF L.dollar = Some(0) THEN Some(0)
                      ELSE IF IsNull(L.dollar) THEN L.int ELSE null]
    ELSE s

\* 4. "Total Chargebacks N $X" row
FDTotalChargebacks(s, L) ==
  IF IsNull(s.chargebackCount) /\ L.totalCb
    THEN [s EXCEPT !.chargebackCount = L.int] ELSE s

\* Mutant of FDCardHeading: the interchange section is left open
FDCardHeadingKeepsInterchange(s) ==
  [s EXCEPT !.inCardTypeSection = TRUE,
            !.cardSectionItemSum = 0, !.cardSectionRowsFound = 0,
            !.mcCardSum = 0, !.visaCardSum = 0,
            !.mcCardFound = FALSE, !.visaCardFound = FALSE,
            !.salesCount = null]

\* Section boundary: Summary By Card Type start (the loop then continues)
FDCardHeading(s) ==
  [s EXCEPT !.inCardTypeSection = TRUE, !.inInterchangeSection = FALSE,
            !.cardSectionItemSum = 0, !.cardSectionRowsFound = 0,
            !.mcCardSum = 0, !.visaCardSum = 0,
            !.mcCardFound = FALSE, !.visaCardFound = FALSE,
            !.salesCount = null]

\* Section boundary: Interchange / Fee Detail start
FDInterchangeStart(s, L) ==
  IF ~s.inCardTypeSection /\ L.interchangeStart
    THEN [s EXCEPT !.inInterchangeSection = TRUE] ELSE s

\* Mutant of FDTotalRow: the Total row is not taken as the sales count
FDTotalRowIgnored(s, L) == s

\* "Total" row of Summary By Card Type: the definitive Items sum
FDTotalRow(s, L) ==
  IF ~IsNull(L.int) /\ Val(L.int) > 0
    THEN [s EXCEPT !.salesCount = L.int, !.inCardTypeSection = FALSE]
    ELSE s

\* A row inside Summary By Card Type that does not end the section
FDCardRow(s, L) ==
  IF L.columnHeader \/ L.adjustment THEN s
  ELSE IF L.totalRow THEN FDTotalRow(s, L)
  ELSE IF L.startsWithCardType /\ ~IsNull(L.int) /\ Val(L.int) > 0
    THEN [s EXCEPT !.cardSectionItemSum = @ + Val(L.int),
                   !.cardSectionRowsFound = @ + 1,
                   !.mcCardSum = IF L.isMC THEN @ + Val(L.int) ELSE @,
                   !.mcCardFound = IF L.isMC THEN TRUE ELSE @,
                   !.visaCardSum = IF L.isVisa THEN @ + Val(L.int) ELSE @,
                   !.visaCardFound = IF L.isVisa THEN TRUE ELSE @]
  ELSE s

\* The section-end line of Summary By Card Type
FDCardSectionEnd(s, L) ==
  [s EXCEPT !.inCardTypeSection = FALSE,
            !.inInterchangeSection = IF L.endOpensInterchange THEN TRUE ELSE @]

\* A row inside the Interchange section
FDInterchangeRow(s, L) ==
  IF L.interchangeEnds THEN [s EXCEPT !.inInterchangeSection = FALSE]
  ELSE
    [s EXCEPT
       !.mcInterchangeTotal =
          IF IsNull(@) /\ L.mcTotalRow /\ ~IsNull(L.int) /\ Val(L.int) > 0
            THEN L.int ELSE @,
       !.vsInterchangeTotal =
          IF IsNull(@) /\ L.vsTotalRow /\ ~IsNull(L.int) /\ Val(L.int) > 0
            THEN L.int ELSE @,
       !.mcInterchangeSum =
          IF L.isMCLine /\ ~L.networkFee /\ ~IsNull(L.txn) THEN @ + Val(L.txn) ELSE @,
       !.vsInterchangeSum =
          IF L.isVSLine /\ ~L.networkFee /\ ~IsNull(L.txn) THEN @ + Val(L.txn) ELSE @]

\* The chargeback strategies 2, 3, 4 of one iteration, in the code's order
FDChargebacks(s, L) ==
  FDTotalChargebacks(FDChargebackReversal(FDNoChargebacks(s, L), L), L)

\* One iteration of the for loop over lines
FDStep(s, L, d1, d2) ==
  LET s4 == FDChargebacks(FDGross(FDPeriod(s, L), L, d1, d2), L)
  IN IF L.cardHeading THEN FDCardHeading(s4)
     ELSE LET s5 == FDInterchangeStart(s4, L)
          IN IF s5.inCardTypeSection /\ ~L.cardSectionEnds THEN FDCardRow(s5, L)
             ELSE LET s6 == IF s5.inCardTypeSection THEN FDCardSectionEnd(s5, L) ELSE s5
                  IN IF s6.inInterchangeSection THEN FDInterchangeRow(s6, L) ELSE s6

\* The warning texts (the source's em dash is written "-")
W_MC_FROM_TOTAL == "Mastercard count taken from interchange section total row."
W_MC_FROM_LINES == "Mastercard transaction count estimated from interchange category lines - verify against statement."
W_VISA_FROM_TOTAL == "Visa count taken from interchange section total row."
W_VISA_FROM_LINES == "Visa transaction count estimated from interchange category lines - verify against statement."
W_COUNT_FROM_BRANDS == "Total transaction count approximated from Mastercard + Visa interchange totals - may exclude Discover/AMEX and other card types. Verify if you process multiple brands."
W_FD_CB_AMBIGUOUS == "Chargeback section found but count could not be extracted. Defaulted to 0 - please verify."
W_FD_CB_ABSENT == "Chargeback section not found in PDF. Defaulted to 0."
W_FD_NO_GROSS == "\"Total Amount Submitted\" not found in PDF. Please enter Gross Volume manually."
W_FD_NO_COUNT == "\"Summary By Card Type\" Items column not found. Please enter Sales Count manually."
W_NO_MC == "Mastercard transaction count not found in PDF. Enter it manually for a precise ECP calculation."

\* Mutant of DefaultChargebacks: an unresolved count is left null
DefaultChargebacksMissing(count) == count

\* Chargeback count: never leave null
DefaultChargebacks(count) == IF IsNull(count) THEN Some(0) ELSE count

\* warnings.push(w) when cond
PushIf(ws, cond, w) == IF cond THEN Append(ws, w) ELSE ws

\* Mutant of BrandCount: the brand total row is preferred to the card-type
\* table
BrandCountTotalFirst(cardFound, cardSum, interchangeTotal, interchangeSum) ==
  IF ~IsNull(interchangeTotal) THEN interchangeTotal
  ELSE IF cardFound /\ cardSum > 0 THEN Some(cardSum)
  ELSE IF interchangeSum > 0 THEN Some(interchangeSum)
  ELSE null

\* Per-brand count: card-type table > brand total row > category sum
BrandCount(cardFound, cardSum, interchangeTotal, interchangeSum) ==
  IF cardFound /\ cardSum > 0 THEN Some(cardSum)
  ELSE IF ~IsNull(interchangeTotal) THEN interchangeTotal
  ELSE IF interchangeSum > 0 THEN Some(interchangeSum)
  ELSE null

\* Mutant of fraudCount: the count printed on a fraud line is reported
fraudCountFromFraudLine == Coalesce(firstInt("12 $340.00"), 0)

\* const fraudCount = 0 of both extractors
fraudCount == 0

\* The record both extractors return
ExtractorResult(grossVolume, salesCount, mastercardTxnCount, visaTxnCount, chargebackCount, statementPeriod, warnings) ==
  LET anyExtracted == ~IsNull(grossVolume) \/ ~IsNull(salesCount)
  IN [data |->
        IF anyExtracted
          THEN Some([totalSalesCount    |-> salesCount,
                     totalSalesVolume   |-> grossVolume,
                     cnpTxnCount        |-> salesCount,
                     mastercardTxnCount |-> mastercardTxnCount,
                     visaTxnCount       |-> visaTxnCount,
                     tc15Count          |-> chargebackCount,
                     tc40Count          |-> Some(fraudCount),
                     fraudAmountUSD     |-> null,
                     statementPeriod    |-> statementPeriod])
          ELSE null,
      warnings |-> warnings,
      detectedFields |->
        [totalSalesVolume   |-> ~IsNull(grossVolume),
         totalSalesCount    |-> ~IsNull(salesCount),
         cnpTxnCount        |-> ~IsNull(salesCount),
         mastercardTxnCount |-> ~IsNull(mastercardTxnCount),
         visaTxnCount       |-> ~IsNull(visaTxnCount),
         tc15Count          |-> TRUE,
         tc40Count          |-> TRUE,
         fraudAmountUSD     |-> FALSE,
         statementPeriod    |-> ~IsNull(statementPeriod)],
      isPDFExtracted |-> TRUE]

\* Post-loop resolution and return of parseFirstDataFields
FDFinish(s) ==
  LET count1 == IF IsNull(s.salesCount) /\ s.cardSectionRowsFound > 0
                  THEN Some(s.cardSectionItemSum) ELSE s.salesCount
      mc == BrandCount(s.mcCardFound, s.mcCardSum, s.mcInterchangeTotal, s.mcInterchangeSum)
      visa == BrandCount(s.visaCardFound, s.visaCardSum, s.vsInterchangeTotal, s.vsInterchangeSum)
      mcCard == s.mcCardFound /\ s.mcCardSum > 0
      visaCard == s.visaCardFound /\ s.visaCardSum > 0
      w1 == PushIf(PushIf(<<>>, ~mcCard /\ ~IsNull(s.mcInterchangeTotal), W_MC_FROM_TOTAL),
                   ~mcCard /\ IsNull(s.mcInterchangeTotal) /\ s.mcInterchangeSum > 0,
                   W_MC_FROM_LINES)
      w2 == PushIf(PushIf(w1, ~visaCard /\ ~IsNull(s.vsInterchangeTotal), W_VISA_FROM_TOTAL),
                   ~visaCard /\ IsNull(s.vsInterchangeTotal) /\ s.vsInterchangeSum > 0,
                   W_VISA_FROM_LINES)
      brandTotal == Coalesce(mc, 0) + Coalesce(visa, 0)
      fromBrands == IsNull(count1) /\ brandTotal > 0
      salesCount == IF fromBrands THEN Some(brandTotal) ELSE count1
      w3 == PushIf(w2, fromBrands, W_COUNT_FROM_BRANDS)
      chargebackCount == DefaultChargebacks(s.chargebackCount)
      w4 == PushIf(w3, IsNull(s.chargebackCount),
                   IF s.cbSectionFound THEN W_FD_CB_AMBIGUOUS ELSE W_FD_CB_ABSENT)
      w5 == PushIf(w4, IsNull(s.grossVolume), W_FD_NO_GROSS)
      w6 == PushIf(w5, IsNull(salesCount), W_FD_NO_COUNT)
      w7 == PushIf(w6, IsNull(mc), W_NO_MC)
  IN ExtractorResult(s.grossVolume, salesCount, mc, visa, chargebackCount,
                     s.statementPeriod, w7)

\* ------------------------------------------------------------------------
\* parseChaseFields
\* ------------------------------------------------------------------------

CHASE_GROSS_LABELS ==
  {"gross sales", "total gross sales", "total sales", "total gross",
   "gross amount", "total processed volume", "total processing volume",
   "total amount processed", "sales volume", "gross volume", "net sales"}

CHASE_COUNT_LABELS ==
  {"total transactions", "total items", "total transaction count",
   "number of transactions", "transaction count"}

IsChaseSummaryStart(lower) ==
  includesAny(lower, {"summary of activity", "activity summary",
                      "monthly summary", "monthly activity"})

IsChaseCardStart(lower) ==
  includesAny(lower, {"card type", "by card type", "sales by card"})

\* (lower === 'sales' || /^sales\s/.test(lower)) and none of gross, net, card, by
IsChaseSalesRow(lower) ==
  /\ (lower = "sales" \/ (startsWith(lower, "sales") /\ IsSpace(CharAt(lower, 6))))
  /\ ~includesAny(lower, {"gross", "net", "card", "by"})

IsChaseSectionEnd(lower) ==
  \/ includesAny(lower, {"fee detail", "discount detail", "interchange detail",
                         "summary by batch", "adjustment detail"})
  \/ IsPageLine(lower)

\* /^\s*(count|amount|transactions|items|card type|type)\s*$/i
IsChaseColumnHeader(lower) ==
  lower \in {"count", "amount", "transactions", "items", "card type", "type"}

\* Everything parseChaseFields reads off one line
ChaseScan(line, lower) ==
     [period       |-> extractPeriodFromLine(line),
      dollar       |-> firstDollar(line),
      int          |-> firstInt(line),
      noCb         |-> includesAny(lower, NO_CB_PHRASES),
      summaryStart |-> IsChaseSummaryStart(lower),
      cardStart    |-> IsChaseCardStart(lower),
      gross        |-> includesAny(lower, CHASE_GROSS_LABELS),
      salesRow     |-> IsChaseSalesRow(lower),
      countLabel   |-> includesAny(lower, CHASE_COUNT_LABELS),
      chargeback   |-> includes(lower, "chargeback"),
      sectionEnds  |-> IsChaseSectionEnd(lower),
      columnHeader |-> IsChaseColumnHeader(lower),
      totalRow     |-> IsTotalRow(lower),
      isMC         |-> IsMCRow(lower),
      isVisa       |-> IsVisaRow(lower),
      brandRow     |-> IsMCRow(lower) \/ IsVisaRow(lower)
                         \/ startsWithAny(lower, CARD_TYPE_PREFIXES)]

ChaseLocals ==
  [grossVolume |-> null, salesCount |-> null, chargebackCount |-> null,
   mcCardSum |-> 0, visaCardSum |-> 0, mcCardFound |-> FALSE, visaCardFound |-> FALSE,
   statementPeriod |-> null, inCardSection |-> FALSE, inSummarySection |-> FALSE,
   cbSectionFound |-> FALSE, cardSectionTotal |-> 0]

\* 0. Statement period
ChasePeriod(s, L) ==
  IF IsNull(s.statementPeriod) THEN [s EXCEPT !.statementPeriod = L.period] ELSE s

\* 1. Section boundaries (the loop then continues)
ChaseSummaryStart(s) ==
  [s EXCEPT !.inSummarySection = TRUE, !.inCardSection = FALSE]

ChaseCardStart(s) ==
  [s EXCEPT !.inCardSection = TRUE, !.inSummarySection = FALSE,
            !.cardSectionTotal = 0]

\* 2. Gross volume from an explicit label, on the line or the next one
ChaseGross(s, L, d1) ==
  LET val == IF ~IsNull(L.dollar) THEN L.dollar ELSE d1
  IN IF IsNull(s.grossVolume) /\ L.gross /\ ~IsNull(val) /\ Val(val) > 0
       THEN [s EXCEPT !.grossVolume = val] ELSE s

\* 3. "No Chargebacks" phrase
ChaseNoChargebacks(s, L) ==
  IF IsNull(s.chargebackCount) /\ L.noCb
    THEN [s EXCEPT !.chargebackCount = Some(0)] ELSE s

\* 4. "Sales" row of the activity summary; amount and count may be on the
\* next two lines (d1, d2, n1, n2: firstDollar and firstInt of lines[i+1],
\* lines[i+2]; null past the end)
ChaseSalesRow(s, L, d1, d2, n1, n2) ==
  LET val1 == IF IsNull(L.dollar) THEN d1 ELSE L.dollar
      cnt1 == IF IsNull(L.dollar) /\ IsNull(L.int) THEN n1 ELSE L.int
      val == IF IsNull(val1) THEN d2 ELSE val1
      cnt == IF IsNull(val1) /\ IsNull(cnt1) THEN n2 ELSE cnt1
  IN IF IsNull(s.grossVolume) /\ L.salesRow /\ ~IsNull(val) /\ Val(val) > 0
       THEN [s EXCEPT !.grossVolume = val,
                      !.salesCount = IF ~IsNull(cnt) /\ Val(cnt) > 0 /\ IsNull(@)
                                       THEN cnt ELSE @]
       ELSE s

\* 5. Transaction count from an explicit label, on the line or the next one
ChaseCountLabel(s, L, n1) ==
  LET cnt == IF ~IsNull(L.int) THEN L.int ELSE n1
  IN IF IsNull(s.salesCount) /\ L.countLabel /\ ~IsNull(cnt) /\ Val(cnt) > 0
       THEN [s EXCEPT !.salesCount = cnt] ELSE s

\* 6. Chargebacks row
ChaseChargebacks(s, L, n1) ==
  IF IsNull(s.chargebackCount) /\ L.chargeback
    THEN [s EXCEPT !.cbSectionFound = TRUE,
                   !.chargebackCount =
                      IF ~IsNull(L.int) THEN L.int
                      ELSE IF L.dollar = Some(0) THEN Some(0)
                      ELSE n1]
    ELSE s

\* 7. A line while inCardSection
ChaseCardRow(s, L) ==
  IF L.sectionEnds THEN [s EXCEPT !.inCardSection = FALSE]
  ELSE IF L.columnHeader THEN s
  ELSE IF L.totalRow
    THEN [s EXCEPT !.salesCount = IF ~IsNull(L.int) /\ Val(L.int) > 0 /\ IsNull(@)
                                    THEN L.int ELSE @,
                   !.inCardSection = FALSE]
  ELSE IF L.brandRow /\ ~IsNull(L.int) /\ Val(L.int) > 0
    THEN [s EXCEPT !.cardSectionTotal = @ + Val(L.int),
                   !.mcCardSum = IF L.isMC THEN @ + Val(L.int) ELSE @,
                   !.mcCardFound = IF L.isMC THEN TRUE ELSE @,
                   !.visaCardSum = IF L.isVisa THEN @ + Val(L.int) ELSE @,
                   !.visaCardFound = IF L.isVisa THEN TRUE ELSE @]
  ELSE s

\* One iteration of the for loop over lines
ChaseStep(s, L, d1, d2, n1, n2) ==
  LET s0 == ChasePeriod(s, L)
  IN IF L.summaryStart THEN ChaseSummaryStart(s0)
     ELSE IF L.cardStart THEN ChaseCardStart(s0)
     ELSE LET s6 == ChaseChargebacks(
                      ChaseCountLabel(
                        ChaseSalesRow(
                          ChaseNoChargebacks(ChaseGross(s0, L, d1), L),
                          L, d1, d2, n1, n2),
                        L, n1),
                      L, n1)
          IN IF s6.inCardSection THEN ChaseCardRow(s6, L) ELSE s6

W_COUNT_FROM_ROWS == "Sales count derived from card-type rows. Verify against statement total if multiple card types."
W_CH_CB_AMBIGUOUS == "Chargeback row found but count could not be extracted. Defaulted to 0 - please verify."
W_CH_CB_ABSENT == "Chargeback row not found in PDF. Defaulted to 0."
W_CH_NO_GROSS == "\"Gross Sales\" / \"Total Sales\" not found in PDF. Please enter Gross Volume manually."
W_CH_NO_COUNT == "Transaction count not found in PDF. Please enter Sales Count manually."

\* Post-loop resolution and return of parseChaseFields
ChaseFinish(s) ==
  LET fromRows == IsNull(s.salesCount) /\ s.cardSectionTotal > 0
      salesCount == IF fromRows THEN Some(s.cardSectionTotal) ELSE s.salesCount
      w1 == PushIf(<<>>, fromRows, W_COUNT_FROM_ROWS)
      mc == IF s.mcCardFound /\ s.mcCardSum > 0 THEN Some(s.mcCardSum) ELSE null
      visa == IF s.visaCardFound /\ s.visaCardSum > 0 THEN Some(s.visaCardSum) ELSE null
      chargebackCount == DefaultChargebacks(s.chargebackCount)
      w2 == PushIf(w1, IsNull(s.chargebackCount),
                   IF s.cbSectionFound THEN W_CH_CB_AMBIGUOUS ELSE W_CH_CB_ABSENT)
      w3 == PushIf(w2, IsNull(s.grossVolume), W_CH_NO_GROSS)
      w4 == PushIf(w3, IsNull(salesCount), W_CH_NO_COUNT)
      w5 == PushIf(w4, IsNull(mc), W_NO_MC)
  IN ExtractorResult(s.grossVolume, salesCount, mc, visa, chargebackCount,
                     s.statementPeriod, w5)

\* ------------------------------------------------------------------------
\* Documents
\* ------------------------------------------------------------------------

\* Lines about gross volume, chargebacks and the statement period
ChargebackLines ==
  {"Total Gross Sales You Submitted $1,500.00",
   "No Chargebacks/Reversals for this statement period",
   "Chargebacks/Reversals 3",
   "Chargebacks/Reversals $0.00",
   "Total Chargebacks 2 $50.00",
   "Chargebacks ($45.10)",
   "Statement Period 01/01/2026 THROUGH 01/31/2026"}

\* Lines of a card-type breakdown and of the sales count
CardTypeLines ==
  {"Summary By Card Type",
   "Visa 120 $3,000.00",
   "Mastercard 80 $2,000.00",
   "Total 215 $5,400.00",
   "Total Transactions 500",
   "Sales 1,234 $123,456.78"}

\* Lines of a statement of no known dialect: a gross volume label only
\* parseFirstDataFields knows, a count label only parseChaseFields knows,
\* and a line about fraud reports
SummaryLines ==
  {"Total Submitted $1,500.00",
   "Total Transactions 500",
   "TC40 Fraud Reports 12 $340.00"}

\* Lines of a card-type table followed by an interchange section with brand
\* total rows and category lines
InterchangeLines ==
  {"Summary By Card Type",
   "Mastercard 80 $2,000.00",
   "Fee Detail",
   "MC TOTAL 40 $12.00",
   "MC 12 TRANSACTIONS AT .0165",
   "VISA TOTAL 30 $9.00",
   "VS 7 TRANSACTIONS AT .0180"}

\* Section headings of both dialects (one of them on a line that also has
\* a gross-volume label) among gross-volume labels (with an amount, with a
\* zero amount, with the amount on the next line) and two statement periods
SectionLines ==
  {"Activity Summary Total Sales $900.00",
   "Summary By Card Type",
   "Total Gross Sales You Submitted",
   "Total Gross Sales You Submitted $1,500.00",
   "Total Gross Sales You Submitted $2,750.00",
   "Total Gross Sales You Submitted $0.00",
   "Statement Period 01/01/2026 THROUGH 01/31/2026",
   "Statement Period 02/01/2026 THROUGH 02/28/2026"}

\* Header lines that carry a format marker of one dialect
HeaderLines == {"FIRST DATA Merchant Services", "Chase Paymentech"}

LineGroups == {ChargebackLines, CardTypeLines, SummaryLines}
WalkGroups == LineGroups \cup {InterchangeLines, SectionLines}
Vocabulary == UNION WalkGroups \cup HeaderLines

SeqsUpTo(S, n) == UNION {[1..k -> S] : k \in 0..n}

\* The documents walked: every sequence of at most MaxLines lines of a group
Documents == UNION {SeqsUpTo(G, MaxLines) : G \in WalkGroups}

\* What the extractors read off each line of the vocabulary, evaluated once
ScanOf(line, lower) == [fd |-> FDScan(line, lower), ch |-> ChaseScan(line, lower)]
scan == [l \in Vocabulary |-> ScanOf(l, trim(toLowerCase(l)))] @@ <<>>

\* What the extractors read off each line of the document ls, in order
Scanned(ls) == [k \in 1..Len(ls) |-> scan[ls[k]]]

\* firstDollar(lines[k]) and firstInt(lines[k]) for a 0-based index k, null
\* where the source's bound check (k < lines.length) fails; sc = Scanned(lines)
DollarOf(sc, k) == IF k < Len(sc) THEN sc[k + 1].fd.dollar ELSE null
IntOf(sc, k) == IF k < Len(sc) THEN sc[k + 1].fd.int ELSE null

\* The loop body of each extractor at 0-based index k
FDIteration(s, sc, k) ==
  FDStep(s, sc[k + 1].fd, DollarOf(sc, k + 1), DollarOf(sc, k + 2))

ChaseIteration(s, sc, k) ==
  ChaseStep(s, sc[k + 1].ch, DollarOf(sc, k + 1), DollarOf(sc, k + 2),
            IntOf(sc, k + 1), IntOf(sc, k + 2))

\* The loop from index k up to (not including) index n
RECURSIVE FDWalk(_, _, _, _)
FDWalk(s, sc, k, n) ==
  IF k >= n THEN s ELSE FDWalk(FDIteration(s, sc, k), sc, k + 1, n)

RECURSIVE ChaseWalk(_, _, _, _)
ChaseWalk(s, sc, k, n) ==
  IF k >= n THEN s ELSE ChaseWalk(ChaseIteration(s, sc, k), sc, k + 1, n)

parseFirstDataFields(ls) == FDFinish(FDWalk(FDLocals, Scanned(ls), 0, Len(ls)))
parseChaseFields(ls) == ChaseFinish(ChaseWalk(ChaseLocals, Scanned(ls), 0, Len(ls)))

\* ------------------------------------------------------------------------
\* detectStatementFormat
\* ------------------------------------------------------------------------

FIRSTDATA_MARKERS ==
  {"total amount submitted", "summary by card type", "servefirst",
   "first data", "fiserv", "fd merchant"}

CHASE_MARKERS ==
  {"paymentech", "chase merchant", "chase paymentech", "jpmorgan chase",
   "j.p. morgan", "summary of activity", "monthly activity summary",
   "card type summary", "sales by card type", "chase.com/merchant"}

\* Mutant of HeaderSample: the whole document is sampled
WholeDocument(ls) == ls

\* lines.slice(0, 80)
HeaderSample(ls) ==
  SubSeq(ls, 1, IF Len(ls) < HeaderWindow THEN Len(ls) ELSE HeaderWindow)

\* ls.join(sep); the range is halved to keep the nesting shallow
join(ls, sep) ==
  LET joined[a \in 1..(Len(ls) + 1), b \in 0..Len(ls)] ==
        IF a > b THEN ""
        ELSE IF a = b THEN ls[a]
        ELSE joined[a, (a + b) \div 2] \o sep \o joined[(a + b) \div 2 + 1, b]
  IN joined[1, Len(ls)]

\* The four cases of the final if-chain
FormatOf(hasFirstData, hasChase) ==
  IF hasFirstData /\ ~hasChase THEN "firstdata"
  ELSE IF hasChase /\ ~hasFirstData THEN "chase"
  ELSE IF hasFirstData THEN "firstdata"
  ELSE "unknown"

FormatOfSample(sample) ==
  FormatOf(includesAny(sample, FIRSTDATA_MARKERS), includesAny(sample, CHASE_MARKERS))

detectStatementFormat(ls) ==
  FormatOfSample(toLowerCase(join(HeaderSample(ls), "\n")))

\* ------------------------------------------------------------------------
\* parsePDFStatement
\* ------------------------------------------------------------------------

\* extractPDFLines(file): the text pdf.js finds in the file.  A File is the
\* record [name, size, type, readable, message, lines, rows]: pdf.js either
\* throws an Error with the message (readable = FALSE) or yields the lines.
extractPDFLines(f) == f.lines
ExtractThrows(f) == ~f.readable

\* The object literal {}
EmptyObject == <<>>

NOTICE_SCANNED == "This PDF appears to contain scanned images rather than embedded text. Please enter the key figures manually. Your file is not uploaded or stored."
NOTICE_MANUAL == "Some required fields could not be found automatically in this PDF. Please enter them manually using the form below."
W_FORMAT_UNSURE == "Statement format not definitively identified - auto-detected best match. Please verify extracted figures against your statement."

\* `PDF could not be read: ${err.message}. Please enter figures manually.`
UnreadableNotice(message) ==
  "PDF could not be read: " \o message \o ". Please enter figures manually."

\* Boolean(v) of a nullable number and of a nullable string
TruthyNumber(o) == ~IsNull(o) /\ Val(o) # 0
TruthyString(o) == ~IsNull(o) /\ Val(o) # ""
CountTrue(b) == IF b THEN 1 ELSE 0

CountInData(d) ==
  CountTrue(TruthyNumber(d.totalSalesVolume)) + CountTrue(TruthyNumber(d.totalSalesCount))
    + CountTrue(~IsNull(d.tc15Count)) + CountTrue(TruthyNumber(d.mastercardTxnCount))
    + CountTrue(TruthyString(d.statementPeriod))

\* countExtracted: how many core fields an extractor result holds
countExtracted(r) == IF IsNull(r.data) THEN 0 ELSE CountInData(Val(r.data))

\* Unknown format: keep the result that extracted more fields
BetterOf(fd, chase) == IF countExtracted(fd) >= countExtracted(chase) THEN fd ELSE chase

\* result.warnings.unshift(...) when result.data
WithFormatWarning(r) ==
  IF ~IsNull(r.data) THEN [r EXCEPT !.warnings = <<W_FORMAT_UNSURE>> \o @] ELSE r

\* Format dispatch
DispatchByFormat(format, ls) ==
  IF format = "firstdata" THEN parseFirstDataFields(ls)
  ELSE IF format = "chase" THEN parseChaseFields(ls)
  ELSE WithFormatWarning(BetterOf(parseFirstDataFields(ls), parseChaseFields(ls)))

\* The object returned after dispatch
ExtractedOutcome(r, format, f) ==
  [data |-> r.data,
   warnings |-> r.warnings,
   detectedFields |-> r.detectedFields,
   isPDFExtracted |-> TRUE,
   detectedFormat |-> format,
   requiresManualEntry |-> IsNull(r.data),
   notice |-> IF IsNull(r.data) THEN Some(NOTICE_MANUAL) ELSE null,
   filename |-> f.name,
   fileSize |-> f.size]

\* The object returned for zero lines and from the catch block
ManualOutcome(notice, f) ==
  [data |-> null,
   requiresManualEntry |-> TRUE,
   warnings |-> <<>>,
   detectedFields |-> EmptyObject,
   notice |-> Some(notice),
   filename |-> f.name,
   fileSize |-> f.size]

\* Mutant of IsScanned: the empty line list is not singled out
IsScannedIgnored(ls) == FALSE

\* lines.length === 0
IsScanned(ls) == Len(ls) = 0

\* Dispatch on the detected format and return
OutcomeOfFormat(format, ls, f) ==
  ExtractedOutcome(DispatchByFormat(format, ls), format, f)

\* parsePDFStatement once the lines are extracted
OutcomeOfLines(ls, f) ==
  IF IsScanned(ls) THEN ManualOutcome(NOTICE_SCANNED, f)
  ELSE OutcomeOfFormat(detectStatementFormat(ls), ls, f)

parsePDFStatement(f) ==
  IF ExtractThrows(f) THEN ManualOutcome(UnreadableNotice(f.message), f)
  ELSE OutcomeOfLines(extractPDFLines(f), f)

\* ------------------------------------------------------------------------
\* parseCSVStatement
\* ------------------------------------------------------------------------

\* A settled promise
Fulfilled(value) == [status |-> "fulfilled", value |-> value]
Rejected(message) == [status |-> "rejected", reason |-> message]

\* Object.keys(COLUMN_ALIASES), in insertion order
CSVFields ==
  <<"totalSalesCount", "totalSalesVolume", "cnpTxnCount", "tc15Count",
    "tc40Count", "fraudAmountUSD">>
CSVFieldSet == {CSVFields[k] : k \in 1..Len(CSVFields)}

COLUMN_ALIASES ==
  [totalSalesCount |->
     <<"total_transactions", "transaction_count", "txn_count", "sales_count",
       "total_sales", "total txns", "transactions", "total_txn_count",
       "total transaction count", "count">>,
   totalSalesVolume |->
     <<"total_volume", "sales_volume", "gross_volume", "total_amount",
       "gross_sales", "volume", "total_sales_volume", "gross_amount",
       "total volume", "sales amount", "net_sales">>,
   cnpTxnCount |->
     <<"cnp_transactions", "card_not_present", "ecommerce_transactions",
       "online_transactions", "cnp_count", "cnp txns", "ecom_count",
       "card not present count", "internet_transactions", "cnp">>,
   tc15Count |->
     <<"chargebacks", "disputes", "tc15", "chargeback_count", "dispute_count",
       "cb_count", "total_chargebacks", "total chargebacks",
       "number_of_chargebacks", "retrieval_requests", "tc15_count">>,
   tc40Count |->
     <<"fraud", "tc40", "fraud_count", "fraud_transactions", "tc40_count",
       "fraud_reports", "total_fraud", "fraud count", "fraud items",
       "fraudulent_transactions", "confirmed_fraud">>,
   fraudAmountUSD |->
     <<"fraud_amount", "fraud_volume", "tc40_amount", "fraud_dollars",
       "fraud amount", "total_fraud_amount", "fraudulent_amount">>]

\* s.replace(/\s+/g, '_'): every run of white space becomes one underscore
replaceSpaceRuns(s) ==
  (IF IsSpace(CharAt(s, 1)) THEN "_" ELSE "")
    \o join(splitWS(s), "_")
    \o (IF trimStart(s) # "" /\ IsSpace(CharAt(s, Len(s))) THEN "_" ELSE "")

\* h?.toLowerCase().trim().replace(/\s+/g, '_')
NormalizeHeader(h) == replaceSpaceRuns(trim(toLowerCase(h)))

\* alias.toLowerCase().replace(/\s+/g, '_')
NormalizeAlias(alias) == replaceSpaceRuns(toLowerCase(alias))

\* String(value).replace(/[$,% ]/g, '').trim()
CleanCell(value) == trim(removeChars(value, {"$", ",", "%", " "}))

\* parseFloat of the decimal forms [+-]digits[.digits], whatever follows
\* them: the number in hundredths (decimals after the second are dropped),
\* null for NaN.
Hundredths(frac) == digitsToInt(Slice(frac \o "00", 1, 2))
FractionDigits(t) ==
  IF CharAt(t, 1) = "." THEN Slice(t, 2, 1 + spanDigits(From(t, 2))) ELSE ""
Decimal(sign, int, frac) ==
  IF int = "" /\ frac = "" THEN null
  ELSE Some(sign * (100 * digitsToInt(int) + Hundredths(frac)))
Unsigned(sign, u) ==
  Decimal(sign, Slice(u, 1, spanDigits(u)), FractionDigits(From(u, spanDigits(u) + 1)))
parseFloat(s) ==
  IF CharAt(s, 1) = "-" THEN Unsigned(-1, From(s, 2))
  ELSE IF CharAt(s, 1) = "+" THEN Unsigned(1, From(s, 2))
  ELSE Unsigned(1, s)

\* parseNumeric: null for a blank cell and for NaN
parseNumeric(value) ==
  IF trim(value) = "" THEN null ELSE parseFloat(CleanCell(value))

\* Header names and cell texts of the CSV files explored
CSVHeaderNames ==
  {"Month", "Chargebacks", " Dispute Count ", "count", "CNP", "Total  Volume",
   "Fraud Amount", "TC40",
   "total_transactions", "total_volume", "cnp_transactions", "chargebacks",
   "fraud", "fraud_amount", "fraud_total"}
CountCells == {"", "0", "5", "-5"}
AmountCells == {"", "0.00", "$1,200.50", "n/a"}
TextCells == {"", "Jan 2026"}
\* Positive numbers typed into the downloaded template, and its sample row
TemplateCells ==
  {"1", "45", "0.50", "10000", "500000", "8500", "22", "11000"}
Cells == CountCells \cup AmountCells \cup TextCells \cup TemplateCells

AllAliases ==
  UNION {{COLUMN_ALIASES[f][k] : k \in 1..Len(COLUMN_ALIASES[f])} : f \in CSVFieldSet}

\* The normalisations and cell values, evaluated once
normalizedHeader == [h \in CSVHeaderNames |-> NormalizeHeader(h)] @@ <<>>
normalizedAlias == [a \in AllAliases |-> NormalizeAlias(a)] @@ <<>>
numeric == [c \in Cells |-> parseNumeric(c)] @@ <<>>

\* seq.indexOf(x), 1-based; 0 when x is absent
indexOf(seq, x) ==
  IF \E k \in 1..Len(seq) : seq[k] = x
    THEN FirstOf({k \in 1..Len(seq) : seq[k] = x})
    ELSE 0

\* headers.map(normalise)
NormalizedHeaders(headers) ==
  [k \in 1..Len(headers) |-> normalizedHeader[headers[k]]]

\* The aliases, by position, that some header matches
AliasHits(normalizedHeaders, aliases) ==
  {a \in 1..Len(aliases) : indexOf(normalizedHeaders, normalizedAlias[aliases[a]]) # 0}

\* The header returned for the first alias that matches
HeaderOfHit(headers, normalizedHeaders, aliases, hits) ==
  IF hits = {} THEN null
  ELSE Some(headers[indexOf(normalizedHeaders, normalizedAlias[aliases[FirstOf(hits)]])])

detectColumn(headers, aliases) ==
  HeaderOfHit(headers, NormalizedHeaders(headers), aliases,
              AliasHits(NormalizedHeaders(headers), aliases))

\* let sum = 0; for (const row of results.data) { ... sum += val }
\* over the first n rows
RECURSIVE SumColumn(_, _, _)
SumColumn(data, colName, n) ==
  IF n = 0 THEN 0
  ELSE SumColumn(data, colName, n - 1) + Coalesce(numeric[data[n][colName]], 0)

\* Mutant of Extracted: a column that sums to zero is left null
ExtractedOrNull(sum) == IF sum = 0 THEN null ELSE Some(sum)

\* extracted[field] = sum
Extracted(sum) == Some(sum)

\* `Column for "${field}" not detected - recorded as Not Found.`
W_NOT_DETECTED(field) ==
  "Column for \"" \o field \o "\" not detected - recorded as Not Found."
W_CNP_PROXY == "CNP count column not found. Using total transaction count as proxy. Results may overstate VAMP ratio if card-present transactions are included."

E_CSV_EMPTY == "CSV file appears to be empty or has no data rows."
\* `CSV parse error: ${err.message}`
CSVParseError(message) == "CSV parse error: " \o message

\* columnMap[field] = detectColumn(headers, aliases)
ColumnMap(headers) ==
  [f \in CSVFieldSet |-> detectColumn(headers, COLUMN_ALIASES[f])]

\* The fields whose row loop runs: those with a truthy colName
SummedFields(columnMap) == {f \in CSVFieldSet : TruthyString(columnMap[f])}

\* extracted after the field loop
ExtractedFields(columnMap, data) ==
  [f \in CSVFieldSet |->
     IF TruthyString(columnMap[f])
       THEN Extracted(SumColumn(data, Val(columnMap[f]), Len(data)))
       ELSE null]

\* warnings after the field loop, in field order
RECURSIVE NotDetectedWarnings(_, _)
NotDetectedWarnings(columnMap, n) ==
  IF n = 0 THEN <<>>
  ELSE PushIf(NotDetectedWarnings(columnMap, n - 1),
              ~TruthyString(columnMap[CSVFields[n]]), W_NOT_DETECTED(CSVFields[n]))

\* Mutant of UseProxy: any resolved total sales count is taken, zero included
UseProxyWhenResolved(extracted) ==
  IsNull(extracted.cnpTxnCount) /\ ~IsNull(extracted.totalSalesCount)

\* Fallback: an undetected CNP count takes a positive total sales count
UseProxy(extracted) ==
  /\ IsNull(extracted.cnpTxnCount)
  /\ ~IsNull(extracted.totalSalesCount)
  /\ Val(extracted.totalSalesCount) > 0

WithProxy(extracted) ==
  IF UseProxy(extracted)
    THEN [extracted EXCEPT !.cnpTxnCount = extracted.totalSalesCount]
    ELSE extracted

\* The object the promise resolves with
CSVValue(results, columnMap, extracted) ==
  [data |-> Some(WithProxy(extracted)),
   warnings |-> PushIf(NotDetectedWarnings(columnMap, Len(CSVFields)),
                       UseProxy(extracted), W_CNP_PROXY),
   columnMap |-> columnMap,
   detectedFields |-> [f \in CSVFieldSet |-> TruthyString(columnMap[f])],
   rowCount |-> Len(results.data),
   headers |-> results.fields]

\* The complete callback on Papa's results [fields, data]
CSVComplete(results, columnMap) ==
  IF Len(results.data) = 0 THEN Rejected(E_CSV_EMPTY)
  ELSE Fulfilled(CSVValue(results, columnMap, ExtractedFields(columnMap, results.data)))

\* parseCSVStatement(f): Papa either calls error with the message
\* (readable = FALSE) or calls complete with the parsed rows f.rows
parseCSVStatement(f) ==
  IF ~f.readable THEN Rejected(CSVParseError(f.message))
  ELSE CSVComplete(f.rows, ColumnMap(f.rows.fields))

\* ------------------------------------------------------------------------
\* detectMonthFromFilename and formatMonthLabel
\* ------------------------------------------------------------------------

\* year >= 2020 && year <= 2030
MinFilenameYear == 2020
MaxFilenameYear == 2030

\* new Date().getFullYear(): the year in which the files are uploaded
CurrentYear == 2026

MONTH_NAMES ==
  <<"Jan", "Feb", "Mar", "Apr", "May", "Jun",
    "Jul", "Aug", "Sep", "Oct", "Nov", "Dec">>

\* formatMonthLabel({ year, monthIndex })
formatMonthLabel(year, monthIndex) ==
  (IF monthIndex \in 0..11 THEN MONTH_NAMES[monthIndex + 1] ELSE "Month")
    \o " " \o ToString(year)

\* The own properties of MONTH_MAP
MONTH_MAP ==
  [jan |-> 0, january |-> 0, feb |-> 1, february |-> 1, mar |-> 2, march |-> 2,
   apr |-> 3, april |-> 3, may |-> 4, jun |-> 5, june |-> 5, jul |-> 6,
   july |-> 6, aug |-> 7, september |-> 8, sep |-> 8, sept |-> 8,
   august |-> 7, oct |-> 9, october |-> 9, nov |-> 10, november |-> 10,
   dec |-> 11, december |-> 11]

\* The greatest element of a non-empty set of positions
LastOf(S) == CHOOSE a \in S : \A b \in S : b <= a

Dots(s) == {k \in 1..Len(s) : CharAt(s, k) = "."}

\* s.replace(/\.[^.]+$/, ''): cut the last dot and what follows it, if
\* something follows it
stripExtension(s) ==
  IF Dots(s) = {} \/ LastOf(Dots(s)) = Len(s) THEN s
  ELSE Slice(s, 1, LastOf(Dots(s)) - 1)

\* s.split('.').pop()
lastDotPart(s) == IF Dots(s) = {} THEN s ELSE From(s, LastOf(Dots(s)) + 1)

IsSeparator(c) == c \in {"-", "_"}
FourDigits(s) == Len(s) = 4 /\ AllDigits(s)

\* base.match(/(\d{4})[-_](\d{1,2})/): the leftmost match as [year, mo],
\* mo being the month number minus one; null without a match
NumericStarts(base) ==
  {p \in 1..Len(base) :
     /\ FourDigits(Slice(base, p, p + 3))
     /\ IsSeparator(CharAt(base, p + 4))
     /\ IsDigit(CharAt(base, p + 5))}
NumericAt(base, p) ==
  [year |-> digitsToInt(Slice(base, p, p + 3)),
   mo |-> digitsToInt(Slice(base, p + 5,
                            IF IsDigit(CharAt(base, p + 6)) THEN p + 6 ELSE p + 5)) - 1]
NumericMatch(base) ==
  IF NumericStarts(base) = {} THEN null
  ELSE Some(NumericAt(base, FirstOf(NumericStarts(base))))

\* base.match(/(\d{1,2})[-_](\d{4})/)
TwoDigitMonthAt(base, p) ==
  /\ IsDigit(CharAt(base, p)) /\ IsDigit(CharAt(base, p + 1))
  /\ IsSeparator(CharAt(base, p + 2))
  /\ FourDigits(Slice(base, p + 3, p + 6))
OneDigitMonthAt(base, p) ==
  /\ IsDigit(CharAt(base, p))
  /\ IsSeparator(CharAt(base, p + 1))
  /\ FourDigits(Slice(base, p + 2, p + 5))
Numeric2Starts(base) ==
  {p \in 1..Len(base) : TwoDigitMonthAt(base, p) \/ OneDigitMonthAt(base, p)}
Numeric2At(base, p) ==
  IF TwoDigitMonthAt(base, p)
    THEN [year |-> digitsToInt(Slice(base, p + 3, p + 6)),
          mo |-> digitsToInt(Slice(base, p, p + 1)) - 1]
    ELSE [year |-> digitsToInt(Slice(base, p + 2, p + 5)),
          mo |-> digitsToInt(Slice(base, p, p)) - 1]
NumericMatch2(base) ==
  IF Numeric2Starts(base) = {} THEN null
  ELSE Some(Numeric2At(base, FirstOf(Numeric2Starts(base))))

\* year >= 2020 && year <= 2030 && mo >= 0 && mo <= 11
InFilenameRange(m) ==
  /\ m.year >= MinFilenameYear /\ m.year <= MaxFilenameYear
  /\ m.mo >= 0 /\ m.mo <= 11

\* base.split(/[^a-z0-9]+/): the maximal runs of [a-z0-9], in order.  (The
\* empty strings JavaScript adds at either end are no month and no number.)
IsAlnum(c) == IsDigit(c) \/ IsLower(c)
NotAlnum(c) == ~IsAlnum(c)
spanAlnum(s) == PrefixSpan(s, IsAlnum)
spanNotAlnum(s) == PrefixSpan(s, NotAlnum)
wordsOf[t \in STRING] ==
  IF t = "" THEN <<>>
  ELSE IF spanAlnum(t) = 0 THEN wordsOf[From(t, spanNotAlnum(t) + 1)]
  ELSE <<Slice(t, 1, spanAlnum(t))>> \o wordsOf[From(t, spanAlnum(t) + 1)]

\* parseInt(word, 10) of a word of [a-z0-9]: its leading digits, null for NaN
parseIntWord(word) ==
  IF spanDigits(word) = 0 THEN null
  ELSE Some(digitsToInt(Slice(word, 1, spanDigits(word))))

IsYearWord(word) ==
  /\ ~IsNull(parseIntWord(word))
  /\ Val(parseIntWord(word)) >= MinFilenameYear
  /\ Val(parseIntWord(word)) <= MaxFilenameYear

\* foundMonth and foundYear after the loop: the last word of each kind wins
MonthWords(words) == {k \in 1..Len(words) : words[k] \in DOMAIN MONTH_MAP}
YearWords(words) == {k \in 1..Len(words) : IsYearWord(words[k])}
FoundMonth(words) ==
  IF MonthWords(words) = {} THEN null
  ELSE Some(MONTH_MAP[words[LastOf(MonthWords(words))]])
FoundYear(words) ==
  IF YearWords(words) = {} THEN null
  ELSE parseIntWord(words[LastOf(YearWords(words))])

\* { year, monthIndex, month: formatMonthLabel({ year, monthIndex }) }
MonthInfo(year, monthIndex) ==
  Some([year |-> year, monthIndex |-> monthIndex,
        month |-> formatMonthLabel(year, monthIndex)])

\* Patterns 3 and 4
MonthFromWords(foundMonth, foundYear) ==
  IF ~IsNull(foundMonth) /\ ~IsNull(foundYear)
    THEN MonthInfo(Val(foundYear), Val(foundMonth))
  ELSE IF ~IsNull(foundMonth) THEN MonthInfo(CurrentYear, Val(foundMonth))
  ELSE null

\* Patterns 1 and 2, then the words
MonthFromBase(numericMatch, numericMatch2, words) ==
  IF ~IsNull(numericMatch) /\ InFilenameRange(Val(numericMatch))
    THEN MonthInfo(Val(numericMatch).year, Val(numericMatch).mo)
  ELSE IF ~IsNull(numericMatch2) /\ InFilenameRange(Val(numericMatch2))
    THEN MonthInfo(Val(numericMatch2).year, Val(numericMatch2).mo)
  ELSE MonthFromWords(FoundMonth(words), FoundYear(words))

MonthOfBase(base) ==
  MonthFromBase(NumericMatch(base), NumericMatch2(base), wordsOf[base])

detectMonthFromFilename(filename) ==
  MonthOfBase(stripExtension(toLowerCase(filename)))

\* ------------------------------------------------------------------------
\* parseStatement and parseStatements
\* ------------------------------------------------------------------------

\* `Unsupported file type ".${ext}". Please upload a CSV or PDF statement.`
E_UNSUPPORTED(ext) ==
  "Unsupported file type \"." \o ext \o "\". Please upload a CSV or PDF statement."
E_NO_DATA == "Could not extract data from this file."

\* Dispatch on the extension ext of the lower-cased name and on the type
DispatchByType(f, ext) ==
  IF ext = "csv" \/ f.type = "text/csv" THEN parseCSVStatement(f)
  ELSE IF ext = "pdf" \/ f.type = "application/pdf" THEN Fulfilled(parsePDFStatement(f))
  ELSE Rejected(E_UNSUPPORTED(ext))

\* parseStatement(f): the settled promise
parseStatement(f) == DispatchByType(f, lastDotPart(toLowerCase(f.name)))

\* o.name of an object that may lack the property; undefined reads as null
Field(o, name) == IF name \in DOMAIN o THEN o[name] ELSE null

\* v ?? 0
OrZero(o) == IF IsNull(o) THEN Some(0) ELSE o

\* calculateMonthlyVAMP: (tc40 + tc15) / cnp kept as the exact fraction, null
\* when cnp is 0
calculateMonthlyVAMP(tc40Count, tc15Count, cnpTxnCount) ==
  IF cnpTxnCount = 0 THEN null
  ELSE Some([numerator |-> tc40Count + tc15Count, cnp |-> cnpTxnCount])

\* monthInfo?.year ?? null and monthInfo?.monthIndex ?? null
YearOf(monthInfo) == IF IsNull(monthInfo) THEN null ELSE Some(Val(monthInfo).year)
MonthIndexOf(monthInfo) ==
  IF IsNull(monthInfo) THEN null ELSE Some(Val(monthInfo).monthIndex)

\* Boolean(res.isPDFExtracted)
IsPDFExtracted(res) == "isPDFExtracted" \in DOMAIN res /\ res.isPDFExtracted

\* The entry returned when !res.data
ManualEntry(f, res, monthInfo) ==
  [filename |-> f.name,
   month |-> IF IsNull(monthInfo) THEN f.name ELSE Val(monthInfo).month,
   year |-> YearOf(monthInfo),
   monthIndex |-> MonthIndexOf(monthInfo),
   isPDF |-> TRUE,
   isPDFExtracted |-> IsPDFExtracted(res),
   data |-> null,
   warnings |-> res.warnings,
   error |-> Coalesce(Field(res, "notice"), E_NO_DATA)]

\* data.statementPeriod || monthInfo?.month || file.name
PeriodLabel(f, statementPeriod, monthInfo) ==
  IF TruthyString(statementPeriod) THEN Val(statementPeriod)
  ELSE IF ~IsNull(monthInfo) THEN Val(monthInfo).month
  ELSE f.name

\* The entry returned for extracted data
DataEntry(f, res, data, monthInfo) ==
  [filename |-> f.name,
   month |-> PeriodLabel(f, Field(data, "statementPeriod"), monthInfo),
   year |-> YearOf(monthInfo),
   monthIndex |-> MonthIndexOf(monthInfo),
   isPDFExtracted |-> IsPDFExtracted(res),
   totalSalesCount |-> OrZero(data.totalSalesCount),
   totalSalesVolume |-> OrZero(data.totalSalesVolume),
   cnpTxnCount |-> OrZero(data.cnpTxnCount),
   mastercardTxnCount |-> Field(data, "mastercardTxnCount"),
   visaTxnCount |-> Field(data, "visaTxnCount"),
   tc15Count |-> OrZero(data.tc15Count),
   tc40Count |-> OrZero(data.tc40Count),
   fraudAmountUSD |-> OrZero(data.fraudAmountUSD),
   statementPeriod |-> Field(data, "statementPeriod"),
   vampRatio |-> calculateMonthlyVAMP(Coalesce(data.tc40Count, 0),
                                      Coalesce(data.tc15Count, 0),
                                      Coalesce(data.cnpTxnCount, 0)),
   warnings |-> res.warnings,
   detectedFields |-> res.detectedFields]

\* The async callback of files.map once parseStatement has settled: a
\* rejection passes through, a value becomes an entry
TaskOf(f, parsed, monthInfo) ==
  IF parsed.status = "rejected" THEN parsed
  ELSE IF IsNull(parsed.value.data)
    THEN Fulfilled(ManualEntry(f, parsed.value, monthInfo))
  ELSE Fulfilled(DataEntry(f, parsed.value, Val(parsed.value.data), monthInfo))

FileTask(f) == TaskOf(f, parseStatement(f), detectMonthFromFilename(f.name))

\* Mutant of allSettled: Promise.all, the first rejection rejects the whole
allOrNothing(outcomes) ==
  IF \E k \in 1..Len(outcomes) : outcomes[k].status = "rejected"
    THEN outcomes[FirstOf({k \in 1..Len(outcomes) : outcomes[k].status = "rejected"})]
    ELSE Fulfilled(outcomes)

\* Promise.allSettled: resolves with every outcome, whatever it is
allSettled(outcomes) == Fulfilled(outcomes)

\* results.map(r => r.status === 'fulfilled' ? r.value : { error: ... });
\* every rejection reason is an Error carrying a message
ParsedOf(results) ==
  [k \in 1..Len(results) |->
     IF results[k].status = "fulfilled" THEN results[k].value
     ELSE [error |-> results[k].reason]]

\* The comparator of parsed.sort
compare(a, b) ==
  IF IsNull(Field(a, "year")) /\ IsNull(Field(b, "year")) THEN 0
  ELSE IF IsNull(Field(a, "year")) THEN 1
  ELSE IF IsNull(Field(b, "year")) THEN -1
  ELSE IF a.year # b.year THEN Val(a.year) - Val(b.year)
  ELSE Coalesce(a.monthIndex, 0) - Coalesce(b.monthIndex, 0)

\* Array.prototype.sort is stable: e goes after the entries not greater
InsertEntry(sorted, e) ==
  LET n == Cardinality({k \in 1..Len(sorted) : compare(sorted[k], e) <= 0})
  IN SubSeq(sorted, 1, n) \o <<e>> \o SubSeq(sorted, n + 1, Len(sorted))

RECURSIVE SortPrefix(_, _)
SortPrefix(parsed, n) ==
  IF n = 0 THEN <<>> ELSE InsertEntry(SortPrefix(parsed, n - 1), parsed[n])

sort(parsed) == SortPrefix(parsed, Len(parsed))

\* parseStatements after the await: the settled promise it returns
ReturnOf(awaited) ==
  IF awaited.status = "rejected" THEN awaited
  ELSE Fulfilled(sort(ParsedOf(awaited.value)))

parseStatementsReturn(outcomes) == ReturnOf(allSettled(outcomes))

\* ------------------------------------------------------------------------
\* Specification Spec: a dialect extractor walking a document line by line
\* ------------------------------------------------------------------------

Init ==
  /\ lines \in Documents
  /\ dialect \in {"firstdata", "chase"}
  /\ i = 0
  /\ st = IF dialect = "firstdata" THEN FDLocals ELSE ChaseLocals
  /\ result = null
  /\ pc = "loop"
  /\ file = null /\ files = <<>> /\ settled = <<>> /\ hung = {}

\* parseFirstDataFields: one iteration of the loop
FDLine ==
  /\ pc = "loop" /\ dialect = "firstdata" /\ i < Len(lines)
  /\ st' = FDIteration(st, Scanned(lines), i)
  /\ i' = i + 1
  /\ UNCHANGED <<lines, dialect, result, pc, inputVars>>

\* parseFirstDataFields: post-loop resolution and return
FDReturn ==
  /\ pc = "loop" /\ dialect = "firstdata" /\ i = Len(lines)
  /\ result' = Some(FDFinish(st))
  /\ pc' = "done"
  /\ UNCHANGED <<lines, dialect, i, st, inputVars>>

\* parseChaseFields: one iteration of the loop
ChaseLine ==
  /\ pc = "loop" /\ dialect = "chase" /\ i < Len(lines)
  /\ st' = ChaseIteration(st, Scanned(lines), i)
  /\ i' = i + 1
  /\ UNCHANGED <<lines, dialect, result, pc, inputVars>>

\* parseChaseFields: post-loop resolution and return
ChaseReturn ==
  /\ pc = "loop" /\ dialect = "chase" /\ i = Len(lines)
  /\ result' = Some(ChaseFinish(st))
  /\ pc' = "done"
  /\ UNCHANGED <<lines, dialect, i, st, inputVars>>

Next == FDLine \/ FDReturn \/ ChaseLine \/ ChaseReturn

Spec == Init /\ [][Next]_vars

\* ------------------------------------------------------------------------
\* Properties of the dialect extractors (specification Spec)
\* ------------------------------------------------------------------------

Returned == pc = "done"
ReturnedData == Returned /\ ~IsNull(Val(result).data)
Data == Val(Val(result).data)
Warnings == Val(result).warnings

CountOf(ws, S) == Cardinality({k \in DOMAIN ws : ws[k] \in S})

CbDefaultWarnings ==
  {W_FD_CB_AMBIGUOUS, W_FD_CB_ABSENT, W_CH_CB_AMBIGUOUS, W_CH_CB_ABSENT}

\* C3: whenever an extractor returns a canonical field record its tc15Count
\* is a number >= 0, never null; and when no chargeback strategy resolved a
\* count during the walk, tc15Count is 0 and exactly one "Defaulted to 0"
\* chargeback warning is in the returned warnings.
C3_ChargebackCountAlwaysResolved ==
  Returned =>
    /\ ReturnedData => ~IsNull(Data.tc15Count) /\ Val(Data.tc15Count) >= 0
    /\ IsNull(st.chargebackCount) =>
         /\ ReturnedData => Data.tc15Count = Some(0)
         /\ CountOf(Warnings, CbDefaultWarnings) = 1

\* C3 witness: a record was returned for a document in which no chargeback
\* strategy resolved a count although a chargeback row was seen.
C3_Witness ==
  /\ ReturnedData
  /\ IsNull(st.chargebackCount) /\ st.cbSectionFound
  /\ Data.tc15Count = Some(0)

HasNoChargebacksPhrase(ls) == \E k \in 1..Len(ls) : scan[ls[k]].fd.noCb

\* C4 (as claimed): if any line of the document contains a "no chargebacks
\* this period" phrase, the extracted tc15Count is 0, whatever other
\* chargeback lines the document holds and wherever they stand.
C4_NoChargebacksPhraseGivesZero ==
  (ReturnedData /\ HasNoChargebacksPhrase(lines)) => Data.tc15Count = Some(0)

\* --- C5: the card-type breakdown ---

Positive(o) == ~IsNull(o) /\ Val(o) > 0

\* How extractor d reads line l inside its card-type section
IsHeadingFor(d, l) ==
  IF d = "firstdata" THEN scan[l].fd.cardHeading ELSE scan[l].ch.cardStart

IsPlainRowFor(d, l) ==
  IF d = "firstdata"
    THEN LET L == scan[l].fd
         IN ~L.cardHeading /\ ~L.cardSectionEnds /\ ~L.columnHeader /\ ~L.adjustment
    ELSE LET L == scan[l].ch
         IN ~L.summaryStart /\ ~L.cardStart /\ ~L.sectionEnds /\ ~L.columnHeader

IsTotalRowFor(d, l) ==
  /\ IsPlainRowFor(d, l)
  /\ IF d = "firstdata" THEN scan[l].fd.totalRow ELSE scan[l].ch.totalRow
  /\ Positive(scan[l].fd.int)

IsBrandRowFor(d, l) ==
  /\ IsPlainRowFor(d, l)
  /\ IF d = "firstdata"
       THEN ~scan[l].fd.totalRow /\ scan[l].fd.startsWithCardType
       ELSE ~scan[l].ch.totalRow /\ scan[l].ch.brandRow
  /\ Positive(scan[l].fd.int)

\* The document has one card-type heading, at h, followed by one or more
\* brand rows and then, at t, a Total row with a positive count.
BreakdownAt(d, ls, h, t) ==
  /\ h >= 1 /\ h + 1 < t /\ t <= Len(ls)
  /\ \A k \in 1..Len(ls) : IsHeadingFor(d, ls[k]) <=> k = h
  /\ \A k \in (h + 1)..(t - 1) : IsBrandRowFor(d, ls[k])
  /\ IsTotalRowFor(d, ls[t])

HasBreakdown(d, ls) == \E h, t \in 1..Len(ls) : BreakdownAt(d, ls, h, t)
HeadingOf(d, ls) == CHOOSE h \in 1..Len(ls) : \E t \in 1..Len(ls) : BreakdownAt(d, ls, h, t)
TotalOf(d, ls) == CHOOSE t \in 1..Len(ls) : BreakdownAt(d, ls, HeadingOf(d, ls), t)

RECURSIVE SumInts(_, _)
SumInts(ls, ks) ==
  IF ks = {} THEN 0
  ELSE LET k == CHOOSE x \in ks : TRUE
       IN Val(scan[ls[k]].fd.int) + SumInts(ls, ks \ {k})

VisaRowsOf(d, ls) ==
  {k \in (HeadingOf(d, ls) + 1)..(TotalOf(d, ls) - 1) : scan[ls[k]].fd.isVisa}
MCRowsOf(d, ls) ==
  {k \in (HeadingOf(d, ls) + 1)..(TotalOf(d, ls) - 1) : scan[ls[k]].fd.isMC}

\* The per-brand counts are the sums of the brand's rows of the breakdown
BrandSumsRecovered ==
  /\ VisaRowsOf(dialect, lines) # {} =>
       Data.visaTxnCount = Some(SumInts(lines, VisaRowsOf(dialect, lines)))
  /\ MCRowsOf(dialect, lines) # {} =>
       Data.mastercardTxnCount = Some(SumInts(lines, MCRowsOf(dialect, lines)))

\* C5 (as claimed): for every document whose card-type breakdown holds
\* itemized brand rows and an explicit Total row with a positive count T,
\* the extractor returns totalSalesCount = T, and the Visa and Mastercard
\* counts are the sums of their rows.
C5_ExplicitTotalAlwaysWins ==
  (Returned /\ HasBreakdown(dialect, lines)) =>
    /\ ReturnedData
    /\ Data.totalSalesCount = scan[lines[TotalOf(dialect, lines)]].fd.int
    /\ BrandSumsRecovered

\* The sales count parseChaseFields has resolved before it reaches line t
ChaseCountBefore(ls, t) == ChaseWalk(ChaseLocals, Scanned(ls), 0, t - 1).salesCount

\* C5 (amended): for such a document parseFirstDataFields returns
\* totalSalesCount = T; parseChaseFields returns T unless a line before the
\* Total row already resolved the sales count (a transaction-count label or
\* the Sales row of the activity summary), and then returns that earlier
\* count; both return the sums of the Visa and Mastercard rows of the
\* breakdown as visaTxnCount and mastercardTxnCount.
C5_ExplicitTotalWinsUnlessResolvedEarlier ==
  (Returned /\ HasBreakdown(dialect, lines)) =>
    LET t == TotalOf(dialect, lines)
        early == IF dialect = "chase" THEN ChaseCountBefore(lines, t) ELSE null
    IN /\ ReturnedData
       /\ Data.totalSalesCount = IF IsNull(early) THEN scan[lines[t]].fd.int ELSE early
       /\ BrandSumsRecovered

\* C5 witness: a breakdown with Visa and Mastercard rows whose Total row
\* differs from the sum of the rows, and the Total row was returned.
C5_Witness ==
  /\ ReturnedData /\ HasBreakdown(dialect, lines)
  /\ VisaRowsOf(dialect, lines) # {} /\ MCRowsOf(dialect, lines) # {}
  /\ Data.totalSalesCount = scan[lines[TotalOf(dialect, lines)]].fd.int
  /\ Val(Data.totalSalesCount) # Val(Data.visaTxnCount) + Val(Data.mastercardTxnCount)

\* ------------------------------------------------------------------------
\* Specification SpecDetect: detectStatementFormat on documents around the
\* 80-line header window
\* ------------------------------------------------------------------------

\* Lines of the documents past the header window
MaxTail == 2

Filler == "--"

\* Header lines carrying a marker of one dialect, and two lines that make a
\* Chase marker only if read as one
MarkerLines ==
  {"FIRST DATA Merchant Services", "Chase Paymentech", "Monthly", "Activity Summary"}

DetectLengths == {0, 1, 2} \cup ((HeaderWindow - 1)..(HeaderWindow + MaxTail))
DetectPositions == {1, 2} \cup ((HeaderWindow - 1)..(HeaderWindow + MaxTail))

\* n filler lines with line a at position p and line b at position q
Placed(n, p, a, q, b) ==
  [k \in 1..n |-> IF k = p THEN a ELSE IF k = q THEN b ELSE Filler]

DetectDocuments ==
  {Placed(n, p, a, q, b) :
     n \in DetectLengths, p \in DetectPositions, q \in DetectPositions,
     a \in MarkerLines, b \in MarkerLines \cup {Filler}}

DetectInit ==
  /\ lines \in DetectDocuments
  /\ pc = "detect"
  /\ result = null
  /\ dialect = "" /\ i = 0 /\ st = <<>>
  /\ file = null /\ files = <<>> /\ settled = <<>> /\ hung = {}

\* detectStatementFormat(lines), and the same call made again
DetectFormat ==
  /\ pc \in {"detect", "done"}
  /\ result' = Some(detectStatementFormat(lines))
  /\ pc' = "done"
  /\ UNCHANGED <<lines, dialect, i, st, inputVars>>

DetectNext == DetectFormat

SpecDetect == DetectInit /\ [][DetectNext]_vars

\* ------------------------------------------------------------------------
\* Properties of detectStatementFormat (specification SpecDetect)
\* ------------------------------------------------------------------------

\* Line l contains one of the markers, case-insensitively
LineHasMarker(l, markers) == includesAny(toLowerCase(l), markers)

\* One of the first 80 lines of ls contains one of the markers
WindowHasMarker(ls, markers) ==
  \E k \in 1..Len(ls) : k <= HeaderWindow /\ LineHasMarker(ls[k], markers)

MaxPDFLines == 3

\* A File object
File(name, type, readable, message, ls, rows) ==
  [name |-> name, size |-> Len(name), type |-> type, readable |-> readable,
   message |-> message, lines |-> ls, rows |-> rows]

PDFName == "statement_jan_2026.pdf"

\* Messages of the Error pdf.js throws on a corrupt or encrypted file
PDFErrors == {"Invalid PDF structure", "No password given"}

PDFBodies == UNION {SeqsUpTo(G, MaxPDFLines) : G \in LineGroups}
PDFDocuments == PDFBodies \cup {<<h>> \o b : h \in HeaderLines, b \in PDFBodies}

PDFFiles ==
  {File(PDFName, "application/pdf", TRUE, "", d, <<>>) : d \in PDFDocuments}
    \cup {File(PDFName, "application/pdf", FALSE, m, <<>>, <<>>) : m \in PDFErrors}

PDFInit ==
  /\ file \in PDFFiles
  /\ pc = "extract"
  /\ lines = <<>>
  /\ result = null
  /\ dialect = "" /\ i = 0 /\ st = <<>>
  /\ files = <<>> /\ settled = <<>> /\ hung = {}

\* const lines = await extractPDFLines(file)
PDFExtract ==
  /\ pc = "extract" /\ ~ExtractThrows(file)
  /\ lines' = extractPDFLines(file)
  /\ pc' = "lines"
  /\ UNCHANGED <<dialect, i, st, result, inputVars>>

\* extractPDFLines throws: the catch block returns
PDFUnreadable ==
  /\ pc = "extract" /\ ExtractThrows(file)
  /\ result' = Some(parsePDFStatement(file))
  /\ pc' = "done"
  /\ UNCHANGED <<lines, dialect, i, st, inputVars>>

\* Zero lines, or format detection, dispatch and return
PDFReturn ==
  /\ pc = "lines"
  /\ result' = Some(OutcomeOfLines(lines, file))
  /\ pc' = "done"
  /\ UNCHANGED <<lines, dialect, i, st, inputVars>>

PDFNext == PDFExtract \/ PDFUnreadable \/ PDFReturn

SpecPDF == PDFInit /\ [][PDFNext]_vars

\* ------------------------------------------------------------------------
\* Properties of parsePDFStatement (specification SpecPDF)
\* ------------------------------------------------------------------------

Outcome == Val(result)

\* The file's text extraction yields zero lines (image-only, scanned)
ScannedFile == file.readable /\ file.lines = <<>>

\* C8: for every PDF whose text extraction yields zero lines,
\* parsePDFStatement ends by returning an outcome (it does not throw) with
\* requiresManualEntry = true and no canonical fields; that outcome carries
\* the scanned-images notice and neither isPDFExtracted nor detectedFormat,
\* while the outcome for an unreadable file and for a readable file with
\* lines (whatever its format, "unknown" included) never carries that
\* notice.
C8_ScannedPDFDistinctManualEntry ==
  /\ (pc = "done" /\ ScannedFile) =>
        /\ ~IsNull(result)
        /\ Outcome.requiresManualEntry
        /\ IsNull(Outcome.data)
        /\ Outcome.notice = Some(NOTICE_SCANNED)
        /\ {"isPDFExtracted", "detectedFormat"} \cap DOMAIN Outcome = {}
  /\ (pc = "done" /\ ~ScannedFile) =>
        /\ Outcome.notice # Some(NOTICE_SCANNED)
        /\ file.readable => Outcome.isPDFExtracted /\ Outcome.detectedFormat = detectStatementFormat(lines)

\* C8 witness: a scanned PDF has been answered
C8_Witness ==
  pc = "done" /\ ScannedFile /\ Outcome.requiresManualEntry /\ IsNull(Outcome.data)

\* Some line of the document resolves the statement period
HasPeriodLine(ls) == \E k \in 1..Len(ls) : ~IsNull(scan[ls[k]].fd.period)

\* C9 (as claimed): requiresManualEntry is true only when no canonical field
\* at all could be resolved from the lines; if a line resolved the statement
\* period or the chargeback count (a "no chargebacks" phrase),
\* requiresManualEntry is false and the field is in the returned record.
C9_ManualEntryOnlyWhenNothingResolved ==
  (pc = "done" /\ file.readable /\ lines # <<>>) =>
    /\ HasPeriodLine(lines) =>
         /\ ~Outcome.requiresManualEntry
         /\ ~IsNull(Outcome.data) /\ ~IsNull(Val(Outcome.data).statementPeriod)
    /\ HasNoChargebacksPhrase(lines) =>
         /\ ~Outcome.requiresManualEntry
         /\ ~IsNull(Outcome.data) /\ ~IsNull(Val(Outcome.data).tc15Count)

\* ------------------------------------------------------------------------
\* Specification SpecCSV: parseCSVStatement on one CSV file
\* ------------------------------------------------------------------------

\* Most data rows of a CSV file
MaxRows == 2

\* The header rows of the files explored
CSVHeaderLists ==
  {<<"Month">>, <<"Chargebacks">>, <<"count">>,
   <<" Dispute Count ", "Chargebacks">>, <<"count", "CNP">>,
   <<"Total  Volume", "Fraud Amount">>, <<"TC40", "Month">>}

\* The cell texts explored under each header
CellsOf(h) ==
  IF h \in {"Total  Volume", "Fraud Amount"} THEN AmountCells
  ELSE IF h = "Month" THEN TextCells
  ELSE CountCells

\* Papa's row objects for the header row hs: one cell per header
RowsOf(hs) ==
  {row \in [{hs[k] : k \in 1..Len(hs)} -> Cells] :
     \A h \in DOMAIN row : row[h] \in CellsOf(h)}

\* Papa's results: meta.fields and data
PapaResults ==
  UNION {{[fields |-> hs, data |-> d] : d \in SeqsUpTo(RowsOf(hs), MaxRows)} :
           hs \in CSVHeaderLists}

CSVName == "statement_jan_2026.csv"
CSVErrors == {"File could not be read"}

CSVFiles ==
  {File(CSVName, "text/csv", TRUE, "", <<>>, r) : r \in PapaResults}
    \cup {File(CSVName, "text/csv", FALSE, m, <<>>, <<>>) : m \in CSVErrors}

CSVInit ==
  /\ file \in CSVFiles
  /\ pc = "parsing"
  /\ result = null
  /\ st = {}
  /\ lines = <<>> /\ dialect = "" /\ i = 0
  /\ files = <<>> /\ settled = <<>> /\ hung = {}

\* Papa calls error: the promise rejects
CSVError ==
  /\ pc = "parsing" /\ ~file.readable
  /\ result' = Some(parseCSVStatement(file))
  /\ pc' = "settled"
  /\ UNCHANGED <<lines, dialect, i, st, inputVars>>

\* Papa calls complete without data rows: the promise rejects
CSVEmpty ==
  /\ pc = "parsing" /\ file.readable /\ Len(file.rows.data) = 0
  /\ result' = Some(parseCSVStatement(file))
  /\ pc' = "settled"
  /\ UNCHANGED <<lines, dialect, i, st, inputVars>>

\* Papa calls complete with data rows: the promise resolves; st records the
\* fields whose row loop ran
CSVResolve ==
  /\ pc = "parsing" /\ file.readable /\ Len(file.rows.data) > 0
  /\ result' = Some(parseCSVStatement(file))
  /\ st' = SummedFields(ColumnMap(file.rows.fields))
  /\ pc' = "settled"
  /\ UNCHANGED <<lines, dialect, i, inputVars>>

CSVNext == CSVError \/ CSVEmpty \/ CSVResolve

SpecCSV == CSVInit /\ [][CSVNext]_vars

\* ------------------------------------------------------------------------
\* Properties of parseCSVStatement (specification SpecCSV)
\* ------------------------------------------------------------------------

Settlement == Val(result)
CSVData == Val(Settlement.value.data)
CSVHeaders == file.rows.fields

\* The header positions that match some alias of the field
MatchingColumns(f) ==
  {k \in 1..Len(CSVHeaders) :
     \E a \in 1..Len(COLUMN_ALIASES[f]) :
       normalizedHeader[CSVHeaders[k]] = normalizedAlias[COLUMN_ALIASES[f][a]]}

\* The alias positions of the field that the header at position k matches
AliasesOf(f, k) ==
  {a \in 1..Len(COLUMN_ALIASES[f]) :
     normalizedHeader[CSVHeaders[k]] = normalizedAlias[COLUMN_ALIASES[f][a]]}

\* The matching header found by the earliest alias of the field's list (the
\* leftmost such header if several match that alias)
IsSelectedColumn(f, k) ==
  /\ k \in MatchingColumns(f)
  /\ \A j \in MatchingColumns(f) \ {k} :
       \/ FirstOf(AliasesOf(f, k)) < FirstOf(AliasesOf(f, j))
       \/ (FirstOf(AliasesOf(f, k)) = FirstOf(AliasesOf(f, j)) /\ k < j)

\* The numeric cells of the column at position k, added up
RECURSIVE CellsTotal(_, _)
CellsTotal(k, n) ==
  IF n = 0 THEN 0
  ELSE CellsTotal(k, n - 1)
         + Coalesce(numeric[file.rows.data[n][CSVHeaders[k]]], 0)
ColumnTotal(k) == CellsTotal(k, Len(file.rows.data))

CSVHasRows == file.readable /\ Len(file.rows.data) > 0

\* A field without a matching header is null and was never summed, except
\* cnpTxnCount holding a positive proxy
AbsentColumnsNotFound ==
  \A f \in CSVFieldSet :
    MatchingColumns(f) = {} =>
      /\ f \notin st
      /\ ~Settlement.value.detectedFields[f]
      /\ \/ IsNull(CSVData[f])
         \/ (f = "cnpTxnCount" /\ Val(CSVData[f]) > 0)

MaxFiles == 3

GrossLine == "Total Gross Sales You Submitted $1,500.00"
PeriodLine == "Statement Period 01/01/2026 THROUGH 01/31/2026"

\* The files uploaded: PDFs with and without a period line and a date in
\* the name, a scanned and a corrupt PDF, CSVs with one column, with two,
\* without data rows and unreadable, and a text file
BatchFiles ==
  {File("2026-03_report.pdf", "application/pdf", TRUE, "",
        <<GrossLine, PeriodLine>>, <<>>),
   File("summary.pdf", "application/pdf", TRUE, "",
        <<GrossLine, PeriodLine>>, <<>>),
   File("statement.pdf", "application/pdf", TRUE, "",
        <<GrossLine, "Chargebacks/Reversals 3">>, <<>>),
   File("scan_apr_2026.pdf", "application/pdf", TRUE, "", <<>>, <<>>),
   File("corrupt_2025-12.pdf", "application/pdf", FALSE, "Invalid PDF structure",
        <<>>, <<>>),
   File("feb_2026.csv", "text/csv", TRUE, "", <<>>,
        [fields |-> <<"Chargebacks">>, data |-> <<[Chargebacks |-> "5"]>>]),
   File("01-2026 export.csv", "text/csv", TRUE, "", <<>>,
        [fields |-> <<"count", "CNP">>,
         data |-> <<[count |-> "5", CNP |-> "0"], [count |-> "5", CNP |-> "5"]>>]),
   File("empty_2026_05.csv", "text/csv", TRUE, "", <<>>,
        [fields |-> <<"count", "CNP">>, data |-> <<>>]),
   File("notes.txt", "text/plain", TRUE, "", <<>>, <<>>)}

\* Each file's task, evaluated once
task == [f \in BatchFiles |-> FileTask(f)] @@ <<>>

BatchInit ==
  /\ files \in SeqsUpTo(BatchFiles, MaxFiles)
  /\ settled = [k \in 1..Len(files) |-> null]
  /\ hung = {}
  /\ result = null
  /\ pc = "mapping"
  /\ file = null
  /\ lines = <<>> /\ dialect = "" /\ i = 0 /\ st = <<>>

\* The task of some file fulfils with its entry
TaskFulfils ==
  /\ pc = "mapping"
  /\ \E k \in 1..Len(files) :
       /\ IsNull(settled[k])
       /\ k \notin hung
       /\ task[files[k]].status = "fulfilled"
       /\ settled' = [settled EXCEPT ![k] = Some(task[files[k]])]
  /\ UNCHANGED <<walkVars, file, files, hung>>

\* The task of some file rejects
TaskRejects ==
  /\ pc = "mapping"
  /\ \E k \in 1..Len(files) :
       /\ IsNull(settled[k])
       /\ k \notin hung
       /\ task[files[k]].status = "rejected"
       /\ settled' = [settled EXCEPT ![k] = Some(task[files[k]])]
  /\ UNCHANGED <<walkVars, file, files, hung>>

\* Every task has settled: map, sort and return
BatchReturn ==
  /\ pc = "mapping"
  /\ \A k \in 1..Len(files) : ~IsNull(settled[k])
  /\ result' = Some(parseStatementsReturn([k \in 1..Len(files) |-> Val(settled[k])]))
  /\ pc' = "done"
  /\ UNCHANGED <<lines, dialect, i, st, inputVars>>

BatchNext == TaskFulfils \/ TaskRejects \/ BatchReturn

SpecBatch == BatchInit /\ [][BatchNext]_vars

\* ------------------------------------------------------------------------
\* Properties of parseStatements (specification SpecBatch)
\* ------------------------------------------------------------------------

Returns == Val(result)
Entries == Returns.value

\* The canonical numeric fields of a batch entry
CanonicalFields ==
  {"totalSalesCount", "totalSalesVolume", "cnpTxnCount", "mastercardTxnCount",
   "visaTxnCount", "tc15Count", "tc40Count", "fraudAmountUSD"}

\* The record the extractor returned for the file, null if there is none
ExtractedOf(f) ==
  IF parseStatement(f).status = "fulfilled" THEN parseStatement(f).value.data
  ELSE null

\* The positions of the result that hold the entry of the file
EntriesOf(f) ==
  {k \in 1..Len(Entries) : Field(Entries[k], "filename") = f.name}

\* C1 (as claimed): across the pipeline, a canonical numeric field that the
\* extractor recorded as null is never the number 0 in the file's batch
\* entry.
C1_NotFoundNeverReportedAsZero ==
  (pc = "done" /\ Returns.status = "fulfilled") =>
    \A n \in 1..Len(files) :
      ~IsNull(ExtractedOf(files[n])) =>
        \A k \in EntriesOf(files[n]) : \A fld \in CanonicalFields :
          IsNull(Field(Val(ExtractedOf(files[n])), fld)) =>
            Field(Entries[k], fld) # Some(0)

\* The files the claim calls failing: a corrupt or unreadable PDF, an
\* unsupported type, an empty or unreadable CSV
Fails(f) ==
  \/ ~f.readable
  \/ f.type \notin {"text/csv", "application/pdf"}
  \/ (f.type = "text/csv" /\ Len(f.rows.data) = 0)

Bijections(n) ==
  {p \in [1..n -> 1..n] : \A a, b \in 1..n : p[a] = p[b] => a = b}

\* An entry that carries an error message and no canonical field
IsErrorEntry(e) ==
  /\ "error" \in DOMAIN e /\ e.error # ""
  /\ DOMAIN e \cap (CanonicalFields \cup {"statementPeriod"}) = {}
  /\ IsNull(Field(e, "data"))

LabelMonth(label) ==
  IF \E ym \in (12 * MinFilenameYear)..(12 * MaxFilenameYear + 11) : MonthLabel(ym) = label
    THEN Some(CHOOSE ym \in (12 * MinFilenameYear)..(12 * MaxFilenameYear + 11) :
                MonthLabel(ym) = label)
    ELSE null

\* The period of an entry as the claim defines it: the statement-extracted
\* period when there is one, otherwise the one guessed from the filename
PeriodOfEntry(e) ==
  IF ~IsNull(Field(e, "statementPeriod")) /\ ~IsNull(LabelMonth(Val(e.statementPeriod)))
    THEN LabelMonth(Val(e.statementPeriod))
  ELSE IF ~IsNull(Field(e, "year"))
    THEN Some(12 * Val(e.year) + Coalesce(e.monthIndex, 0))
  ELSE null

\* Some file named x was uploaded before some file named y
UploadedBefore(x, y) ==
  \E m, n \in 1..Len(files) : m < n /\ files[m].name = x /\ files[n].name = y

\* C7 (as claimed): the returned array is ordered by the period of each
\* entry, the statement-extracted period taking precedence over the one
\* guessed from the filename; entries without any derivable period come
\* after all dated ones, and entries that compare equal keep upload order.
C7_SortedByEntryPeriod ==
  (pc = "done" /\ Returns.status = "fulfilled") =>
    \A a, b \in 1..Len(Entries) :
      a < b =>
        /\ IsNull(PeriodOfEntry(Entries[a])) => IsNull(PeriodOfEntry(Entries[b]))
        /\ (~IsNull(PeriodOfEntry(Entries[a])) /\ ~IsNull(PeriodOfEntry(Entries[b])))
             => Val(PeriodOfEntry(Entries[a])) <= Val(PeriodOfEntry(Entries[b]))
        /\ (/\ PeriodOfEntry(Entries[a]) = PeriodOfEntry(Entries[b])
            /\ "filename" \in DOMAIN Entries[a] /\ "filename" \in DOMAIN Entries[b])
             => UploadedBefore(Entries[a].filename, Entries[b].filename)

\* ------------------------------------------------------------------------
\* Properties of the unknown-format dispatch (specification SpecPDF)
\* ------------------------------------------------------------------------

\* The fields of a canonical field record
RecordFields ==
  {"totalSalesCount", "totalSalesVolume", "cnpTxnCount", "mastercardTxnCount",
   "visaTxnCount", "tc15Count", "tc40Count", "fraudAmountUSD", "statementPeriod"}

\* How many canonical fields of an extractor result are not null
ResolvedCount(r) ==
  IF IsNull(r.data) THEN 0
  ELSE Cardinality({fld \in RecordFields : ~IsNull(Val(r.data)[fld])})

\* parsePDFStatement took the unknown-format branch on the file's lines
UnknownFormatReturned ==
  pc = "done" /\ file.readable /\ lines # <<>>
    /\ detectStatementFormat(lines) = "unknown"

\* C11 (as claimed): when the format is unknown, the returned result is the
\* one of the two extractors' results with the greater number of non-null
\* canonical fields, all canonical fields counted; it never has fewer than
\* the other extractor's result.
C11_UnknownFormatKeepsMostResolved ==
  UnknownFormatReturned =>
    /\ ResolvedCount(Outcome) >= ResolvedCount(parseFirstDataFields(lines))
    /\ ResolvedCount(Outcome) >= ResolvedCount(parseChaseFields(lines))

\* ------------------------------------------------------------------------
\* Properties of the CNP proxy (specification SpecCSV)
\* ------------------------------------------------------------------------

CSVWarnings == Settlement.value.warnings

\* The warnings that contain the word "proxy"
ProxyWarnings ==
  {k \in 1..Len(CSVWarnings) : includes(CSVWarnings[k], "proxy")}

\* The cells of the column selected for the field add up to a positive number
SelectedTotalPositive(f) ==
  \E k \in MatchingColumns(f) : IsSelectedColumn(f, k) /\ ColumnTotal(k) > 0

\* No CNP column was detected and totalSalesCount resolved to a positive value
ProxyCase ==
  MatchingColumns("cnpTxnCount") = {} /\ SelectedTotalPositive("totalSalesCount")

\* C12: the CNP proxy fires exactly when no CNP column was detected and
\* totalSalesCount resolved to a positive value; then cnpTxnCount equals
\* totalSalesCount and one warning containing "proxy" is appended as the
\* last warning.  When a CNP column exists (even summing to 0) or
\* totalSalesCount is null or not positive, cnpTxnCount is what its own
\* column gave (null without a column) and no warning mentions a proxy.
C12_ProxyFiresExactlyWhenNoCNPColumn ==
  (pc = "settled" /\ CSVHasRows) =>
    /\ ProxyCase =>
         /\ CSVData.cnpTxnCount = CSVData.totalSalesCount
         /\ Val(CSVData.cnpTxnCount) > 0
         /\ ProxyWarnings = {Len(CSVWarnings)}
    /\ ~ProxyCase =>
         /\ ProxyWarnings = {}
         /\ MatchingColumns("cnpTxnCount") = {} => IsNull(CSVData.cnpTxnCount)
         /\ \A k \in MatchingColumns("cnpTxnCount") :
              IsSelectedColumn("cnpTxnCount", k) => CSVData.cnpTxnCount = Some(ColumnTotal(k))

\* C12 witness: a file with a count column adding up to 10 and no CNP
\* column has been parsed and the proxy has fired
C12_Witness ==
  /\ pc = "settled" /\ CSVHasRows /\ ProxyCase
  /\ CSVHeaders = <<"count">>
  /\ CSVData.totalSalesCount = Some(1000)
  /\ CSVData.cnpTxnCount = Some(1000)
  /\ CSVWarnings[Len(CSVWarnings)] = W_CNP_PROXY

\* ------------------------------------------------------------------------
\* Properties of cnpTxnCount in the dialect extractors (specification Spec)
\* ------------------------------------------------------------------------

\* Some warning is about the CNP count or about a proxy
MentionsProxy(ws) ==
  \E k \in 1..Len(ws) : includesAny(ws[k], {"proxy", "Proxy", "CNP", "card-not-present"})

\* C13 (as claimed): in every extraction result, whenever totalSalesCount
\* resolved, cnpTxnCount is not null; and whenever cnpTxnCount was taken
\* from totalSalesCount for want of CNP evidence (always so in the two PDF
\* extractors, which read no CNP figure), a warning about the proxy is in
\* the result's warnings.  The CSV case is the state pc = "settled".
C13_ProxiedCNPCarriesWarning ==
  /\ ReturnedData =>
       (~IsNull(Data.totalSalesCount) =>
          /\ ~IsNull(Data.cnpTxnCount)
          /\ MentionsProxy(Warnings))
  /\ (pc = "settled" /\ Val(result).status = "fulfilled"
        /\ SelectedTotalPositive("totalSalesCount")) =>
       /\ ~IsNull(CSVData.cnpTxnCount)
       /\ MatchingColumns("cnpTxnCount") = {} => MentionsProxy(CSVWarnings)

\* ------------------------------------------------------------------------
\* Sign of the resolved fields (specifications SpecCSV and Spec)
\* ------------------------------------------------------------------------

\* The numeric fields of a canonical field record
NumericFields == RecordFields \ {"statementPeriod"}

\* Every numeric field the record d holds and resolved is >= 0
NoNegativeField(d) ==
  \A fld \in NumericFields \cap DOMAIN d : ~IsNull(d[fld]) => Val(d[fld]) >= 0

\* C14 (as claimed): every numeric canonical field of an extraction result
\* that is not null is >= 0, for parseCSVStatement (pc = "settled") and
\* for the two PDF extractors (pc = "done").
C14_ResolvedFieldsNeverNegative ==
  /\ (pc = "settled" /\ Val(result).status = "fulfilled") => NoNegativeField(CSVData)
  /\ ReturnedData => NoNegativeField(Data)

\* ------------------------------------------------------------------------
\* generateCSVTemplate and the text Papa reads
\* ------------------------------------------------------------------------

\* Mutant of TemplateHeaders: the last header is a name no alias list holds
TemplateHeadersRenamed ==
  <<"total_transactions", "total_volume", "cnp_transactions", "chargebacks",
    "fraud", "fraud_total">>

\* headers of generateCSVTemplate
TemplateHeaders ==
  <<"total_transactions", "total_volume", "cnp_transactions", "chargebacks",
    "fraud", "fraud_amount">>

\* sampleRow of generateCSVTemplate
TemplateSampleRow == <<"10000", "500000", "8500", "45", "22", "11000">>

\* [headers.join(','), row.join(',')].join('\n')
CSVText(headers, row) == join(<<join(headers, ","), join(row, ",")>>, "\n")

\* The text generateCSVTemplate puts into the downloaded file
generateCSVTemplate == CSVText(TemplateHeaders, TemplateSampleRow)

\* s.split(c) for a one-character separator c
splitBy[s \in STRING, c \in STRING] ==
  IF \A k \in 1..Len(s) : CharAt(s, k) # c THEN <<s>>
  ELSE <<Slice(s, 1, FirstOf({k \in 1..Len(s) : CharAt(s, k) = c}) - 1)>>
         \o splitBy[From(s, FirstOf({k \in 1..Len(s) : CharAt(s, k) = c}) + 1), c]

\* Papa.parse with header: true and skipEmptyLines: true on a text without
\* quoted cells: the first non-empty line gives meta.fields, every other
\* one a row object; a cell past the end of a short row reads as blank
PapaRow(fields, cells) ==
  [h \in {fields[k] : k \in 1..Len(fields)} |->
     IF indexOf(fields, h) <= Len(cells) THEN cells[indexOf(fields, h)] ELSE ""]

PapaOfLines(ls) ==
  IF ls = <<>> THEN [fields |-> <<>>, data |-> <<>>]
  ELSE [fields |-> splitBy[ls[1], ","],
        data |-> [k \in 1..(Len(ls) - 1) |->
                    PapaRow(splitBy[ls[1], ","], splitBy[ls[k + 1], ","])]]

NotEmpty(s) == s # ""
PapaParse(text) == PapaOfLines(SelectSeq(splitBy[text, "\n"], NotEmpty))

\* ------------------------------------------------------------------------
\* Specification SpecTemplate: the template is generated, its data row is
\* left alone or overwritten with positive numbers, and the file is parsed
\* ------------------------------------------------------------------------

TemplateName == "vamp_statement_template.csv"

\* The cells typed under each header of the template
FillCells == {"1", "45", "0.50"}

TemplateInit ==
  /\ pc = "template"
  /\ st = ""
  /\ file = null
  /\ result = null
  /\ lines = <<>> /\ dialect = "" /\ i = 0
  /\ files = <<>> /\ settled = <<>> /\ hung = {}

\* generateCSVTemplate(): st is the text of the downloaded file
GenerateTemplate ==
  /\ pc = "template"
  /\ st' = generateCSVTemplate
  /\ pc' = "generated"
  /\ UNCHANGED <<lines, dialect, i, result, inputVars>>

\* The user overwrites the data row, keeping the header row
FillTemplate ==
  /\ pc = "generated"
  /\ \E row \in [1..Len(TemplateHeaders) -> FillCells] :
       st' = CSVText(splitBy[splitBy[st, "\n"][1], ","], row)
  /\ pc' = "filled"
  /\ UNCHANGED <<lines, dialect, i, result, inputVars>>

\* The file is uploaded: Papa reads the text, parseCSVStatement settles
ParseTemplate ==
  /\ pc \in {"generated", "filled"}
  /\ file' = Some(File(TemplateName, "text/csv", TRUE, "", <<>>, PapaParse(st)))
  /\ result' = Some(parseCSVStatement(File(TemplateName, "text/csv", TRUE, "", <<>>, PapaParse(st))))
  /\ pc' = "parsed"
  /\ UNCHANGED <<lines, dialect, i, st, files, settled, hung>>

TemplateNext == GenerateTemplate \/ FillTemplate \/ ParseTemplate

SpecTemplate == TemplateInit /\ [][TemplateNext]_vars

\* ------------------------------------------------------------------------
\* Properties of the template round trip (specification SpecTemplate)
\* ------------------------------------------------------------------------

\* The first alias of each field's alias list, in field order
FirstAliases == [k \in 1..Len(CSVFields) |-> COLUMN_ALIASES[CSVFields[k]][1]]

\* C15: the header row generateCSVTemplate emits is, field by field, the
\* first alias of the field's alias list; parsing the template, as
\* generated or with its data row overwritten with positive numbers,
\* resolves every CSV field to a positive value with detectedFields true,
\* no field null and no warning at all (so neither a column-missing nor a
\* proxy warning).
C15_TemplateRoundTrip ==
  /\ pc \in {"generated", "filled"} =>
       splitBy[splitBy[st, "\n"][1], ","] = FirstAliases
  /\ pc = "parsed" =>
       /\ Val(result).status = "fulfilled"
       /\ \A f \in CSVFieldSet :
            /\ ~IsNull(Val(Val(result).value.data)[f])
            /\ Val(Val(Val(result).value.data)[f]) > 0
            /\ Val(result).value.detectedFields[f]
       /\ Val(result).value.warnings = <<>>
       /\ Val(result).value.headers = FirstAliases

\* C15 witness: the template filled with 45, 0.50, 1, ... has been parsed
\* and the typed values came back
C15_Witness ==
  /\ pc = "parsed"
  /\ st = CSVText(FirstAliases, <<"45", "0.50", "1", "1", "45", "0.50">>)
  /\ Val(Val(result).value.data).totalSalesCount = Some(4500)
  /\ Val(Val(result).value.data).totalSalesVolume = Some(50)
  /\ Val(Val(result).value.data).fraudAmountUSD = Some(50)

\* ------------------------------------------------------------------------
\* Specification SpecBatchLive: parseStatements when the decode of at most
\* one file never calls back.  A promise whose I/O completes is settled
\* eventually, and the continuation of the await runs once it is enabled.
\* ------------------------------------------------------------------------

BatchLiveInit ==
  /\ files \in SeqsUpTo(BatchFiles, MaxFiles)
  /\ settled = [k \in 1..Len(files) |-> null]
  /\ hung \in {{}} \cup {{k} : k \in 1..Len(files)}
  /\ result = null
  /\ pc = "mapping"
  /\ file = null
  /\ lines = <<>> /\ dialect = "" /\ i = 0 /\ st = <<>>

SpecBatchLive ==
  /\ BatchLiveInit
  /\ [][BatchNext]_vars
  /\ WF_vars(TaskFulfils)
  /\ WF_vars(TaskRejects)
  /\ WF_vars(BatchReturn)

\* C16: parseStatements eventually resolves even when the decode of one
\* file never completes; the stuck file is then a failure entry and the
\* other files' entries are the ones they have in a batch without it.
C16_ResolvesDespiteStuckDecode ==
  /\ <>(pc = "done")
  /\ [](pc = "done" =>
         /\ Len(Entries) = Len(files)
         /\ \A k \in hung : \E e \in Entries : e.filename = files[k].name /\ IsErrorEntry(e))

\* The batches without a stuck decode do resolve
C16_ResolvesWhenEveryDecodeCompletes == (hung = {}) ~> (pc = "done")

\* A stuck decode leaves the batch waiting with every other file settled
C16_StuckBatchWaits ==
  /\ pc = "mapping"
  /\ hung = {2}
  /\ Len(files) = 3
  /\ ~IsNull(settled[1]) /\ IsNull(settled[2]) /\ ~IsNull(settled[3])

\* ------------------------------------------------------------------------
\* Specification SpecTasks: the asynchronous steps of the tasks of one
\* parseStatements call, interleaved.  st holds pdf.js's global worker
\* option and, per file, the task's position, page counter and allLines.
\* A PDF is read one page per step, each page giving one line.
\* ------------------------------------------------------------------------

\* Most files in a batch whose steps are interleaved
MaxTasks == 2

WorkerUrl == "pdf.worker.min.mjs"

\* Which branch of parseStatement takes the file
KindOf(f, ext) ==
  IF ext = "csv" \/ f.type = "text/csv" THEN "csv"
  ELSE IF ext = "pdf" \/ f.type = "application/pdf" THEN "pdf"
  ELSE "unsupported"

\* Where a task waits once files.map has run its synchronous part
FirstAwait == [csv |-> "papa", pdf |-> "import", unsupported |-> "thrown"]

kindOf == [f \in BatchFiles |-> KindOf(f, lastDotPart(toLowerCase(f.name)))] @@ <<>>
monthInfoOf == [f \in BatchFiles |-> detectMonthFromFilename(f.name)] @@ <<>>

\* Mutant of PushLine: one allLines array shared by every task
PushLineShared(allLines, k, line) ==
  [j \in DOMAIN allLines |-> Append(allLines[j], line)]

\* allLines.push(line) on the array local to task k
PushLine(allLines, k, line) == [allLines EXCEPT ![k] = Append(@, line)]

\* The task of f settling from what parsePDFStatement returned
PDFTask(f, outcome) == TaskOf(f, Fulfilled(outcome), monthInfoOf[f])

TasksInit ==
  /\ files \in SeqsUpTo(BatchFiles, MaxTasks)
  /\ settled = [k \in 1..Len(files) |-> null]
  /\ hung = {}
  /\ st = [workerSrc |-> null,
           at |-> [k \in 1..Len(files) |-> FirstAwait[kindOf[files[k]]]],
           pageNum |-> [k \in 1..Len(files) |-> 1],
           allLines |-> [k \in 1..Len(files) |-> <<>>]]
  /\ result = null
  /\ pc = "mapping"
  /\ file = null
  /\ lines = <<>> /\ dialect = "" /\ i = 0

Settle(k, outcome) ==
  /\ settled' = [settled EXCEPT ![k] = Some(outcome)]
  /\ st' = [st EXCEPT !.at[k] = "settled"]

\* The dynamic imports resolve; the worker source is set once
TaskImports ==
  /\ \E k \in 1..Len(files) :
       /\ st.at[k] = "import"
       /\ st' = [st EXCEPT !.at[k] = "open",
                           !.workerSrc = IF IsNull(@) THEN Some(WorkerUrl) ELSE @]
  /\ UNCHANGED <<lines, dialect, i, result, pc, inputVars>>

\* file.arrayBuffer() and getDocument settle: the pages can be read, or
\* pdf.js throws and parsePDFStatement's catch returns the notice
TaskOpens ==
  /\ \E k \in 1..Len(files) :
       /\ st.at[k] = "open"
       /\ IF ExtractThrows(files[k])
            THEN Settle(k, PDFTask(files[k],
                     ManualOutcome(UnreadableNotice(files[k].message), files[k])))
            ELSE st' = [st EXCEPT !.at[k] = "pages"] /\ UNCHANGED settled
  /\ UNCHANGED <<lines, dialect, i, result, pc, file, files, hung>>

\* getPage and getTextContent settle for the next page
TaskReadsPage ==
  /\ \E k \in 1..Len(files) :
       /\ st.at[k] = "pages"
       /\ st.pageNum[k] <= Len(files[k].lines)
       /\ st' = [st EXCEPT !.pageNum[k] = @ + 1,
                           !.allLines = PushLine(@, k, files[k].lines[st.pageNum[k]])]
  /\ UNCHANGED <<lines, dialect, i, result, pc, inputVars>>

\* The page loop is over: parsePDFStatement goes on with the lines it has
TaskFinishes ==
  /\ \E k \in 1..Len(files) :
       /\ st.at[k] = "pages"
       /\ st.pageNum[k] > Len(files[k].lines)
       /\ Settle(k, PDFTask(files[k], OutcomeOfLines(st.allLines[k], files[k])))
  /\ UNCHANGED <<lines, dialect, i, result, pc, file, files, hung>>

\* Papa calls complete or error
TaskPapaSettles ==
  /\ \E k \in 1..Len(files) :
       /\ st.at[k] = "papa"
       /\ Settle(k, TaskOf(files[k], parseCSVStatement(files[k]), monthInfoOf[files[k]]))
  /\ UNCHANGED <<lines, dialect, i, result, pc, file, files, hung>>

\* The promise of a file of unsupported type rejects
TaskThrows ==
  /\ \E k \in 1..Len(files) :
       /\ st.at[k] = "thrown"
       /\ Settle(k, parseStatement(files[k]))
  /\ UNCHANGED <<lines, dialect, i, result, pc, file, files, hung>>

TasksNext ==
  \/ TaskImports \/ TaskOpens \/ TaskReadsPage \/ TaskFinishes
  \/ TaskPapaSettles \/ TaskThrows \/ BatchReturn

SpecTasks == TasksInit /\ [][TasksNext]_vars

\* C17: whatever the interleaving of the tasks' steps, every settled task
\* holds the outcome its file has when processed alone, the value returned
\* is the sorted list of those outcomes, and nothing is returned (so
\* nothing sorted) while a task has not settled.
C17_EntriesIndependentOfInterleaving ==
  /\ \A k \in 1..Len(files) :
       ~IsNull(settled[k]) => Val(settled[k]) = task[files[k]]
  /\ ~IsNull(result) =>
       /\ \A k \in 1..Len(files) : ~IsNull(settled[k])
       /\ Val(result) = parseStatementsReturn([k \in 1..Len(files) |-> task[files[k]]])
  /\ pc = "mapping" => IsNull(result)

\* C17 witness: two PDFs with different lines, read page by page side by
\* side, have settled and the batch has returned
C17_Witness ==
  /\ pc = "done"
  /\ Len(files) = 2
  /\ files[1].name = "2026-03_report.pdf" /\ files[2].name = "statement.pdf"
  /\ st.allLines = <<files[1].lines, files[2].lines>>
  /\ st.workerSrc = Some(WorkerUrl)
  /\ Len(Entries) = 2

\* ------------------------------------------------------------------------
\* calculateVAMP, applyAcquirerAdjustment, analyzeVAMP.  A ratio is kept as
\* the exact fraction numerator / cnp; thresholds are in basis points.
\* ------------------------------------------------------------------------

\* VISA_VAMP.thresholds.warning.min and excessive.min: 1.0% and 1.5%
VisaWarningMin == 100
VisaExcessiveMin == 150

\* The acquirers of the model: a tier 1 bank and the catch-all
ACQUIRERS ==
  <<[id |-> "chase", effectiveWarning |-> 50, effectiveExcessive |-> 80],
    [id |-> "other", effectiveWarning |-> 100, effectiveExcessive |-> 150]>>

\* ACQUIRERS.find(a => a.id === id) ?? ACQUIRERS.find(a => a.id === 'other')
getAcquirerById(id) ==
  IF \E k \in 1..Len(ACQUIRERS) : ACQUIRERS[k].id = id
    THEN ACQUIRERS[FirstOf({k \in 1..Len(ACQUIRERS) : ACQUIRERS[k].id = id})]
    ELSE ACQUIRERS[FirstOf({k \in 1..Len(ACQUIRERS) : ACQUIRERS[k].id = "other"})]

Ratio(n, d) == [numerator |-> n, cnp |-> d]

\* ratio >= p / q basis points
AtLeast(r, p, q) == r.numerator * 10000 * q >= p * r.cnp

\* What calculateVAMP returns when cnpTxnCount <= 0
ZeroDenominator(tc40Count, tc15Count, cnpTxnCount) ==
  [ratio |-> Ratio(0, 1),
   tc40Count |-> tc40Count, tc15Count |-> tc15Count, cnpTxnCount |-> cnpTxnCount,
   visaStatus |-> Some("healthy"),
   acquirerStatus |-> Some("healthy"),
   itemsAboveThreshold |-> 0,
   estimatedMonthlyFine |-> 0,
   error |-> "CNP transaction count must be greater than zero."]

VisaStatusOf(r) ==
  IF AtLeast(r, VisaExcessiveMin, 1) THEN "excessive"
  ELSE IF AtLeast(r, VisaWarningMin, 1) THEN "warning"
  ELSE "healthy"

\* calculateVAMP; a null count compares as 0 in `cnpTxnCount <= 0`
calculateVAMP(tc40Count, tc15Count, cnpTxnCount) ==
  IF Coalesce(cnpTxnCount, 0) <= 0
    THEN ZeroDenominator(tc40Count, tc15Count, cnpTxnCount)
  ELSE [ratio |-> Ratio(tc40Count + tc15Count, Val(cnpTxnCount)),
        tc40Count |-> tc40Count, tc15Count |-> tc15Count, cnpTxnCount |-> cnpTxnCount,
        combined |-> tc40Count + tc15Count,
        visaStatus |-> Some(VisaStatusOf(Ratio(tc40Count + tc15Count, Val(cnpTxnCount)))),
        acquirerStatus |-> null]

\* The grade and status applyAcquirerAdjustment gives a ratio
GradeOf(r, acquirer) ==
  IF AtLeast(r, acquirer.effectiveExcessive, 1)
    THEN [acquirerStatus |-> Some("critical"), riskGrade |-> "F"]
  ELSE IF AtLeast(r, acquirer.effectiveWarning, 1)
    THEN [acquirerStatus |-> Some("warning"),
          riskGrade |-> IF AtLeast(r, 3 * acquirer.effectiveWarning, 2) THEN "D" ELSE "C"]
  ELSE [acquirerStatus |-> Some("healthy"),
        riskGrade |-> IF ~AtLeast(r, acquirer.effectiveWarning, 2) THEN "A" ELSE "B"]

\* applyAcquirerAdjustment: {...vampResult, acquirerStatus, riskGrade, ...}
applyAcquirerAdjustment(vampResult, acquirerId) ==
  GradeOf(vampResult.ratio, getAcquirerById(acquirerId)) @@ vampResult

\* analyzeVAMP; acquirerId ?? 'other'
analyzeVAMP(tc40Count, tc15Count, cnpTxnCount, acquirerId) ==
  applyAcquirerAdjustment(calculateVAMP(tc40Count, tc15Count, cnpTxnCount),
                          Coalesce(acquirerId, "other"))

\* ------------------------------------------------------------------------
\* Specification SpecVAMP: the counts of one statement go through
\* parseStatements' ratio and through analyzeVAMP
\* ------------------------------------------------------------------------

\* The counts a statement gives; cnpTxnCount may be null (not found)
FraudCounts == {0, 1, 3}
DisputeCounts == {0, 2, 5, 8}
CNPCounts == {null, Some(0), Some(100), Some(500), Some(1000)}
AcquirerIds == {null, Some("chase"), Some("unlisted")}

VAMPInit ==
  /\ st \in [tc40Count : FraudCounts, tc15Count : DisputeCounts,
             cnpTxnCount : CNPCounts, acquirerId : AcquirerIds]
  /\ pc = "extracted"
  /\ result = null
  /\ file = null /\ files = <<>> /\ settled = <<>> /\ hung = {}
  /\ lines = <<>> /\ dialect = "" /\ i = 0

\* parseStatements computes the entry's vampRatio from `?? 0` of the counts
AttachRatio ==
  /\ pc = "extracted"
  /\ result' = Some([vampRatio |->
                       calculateMonthlyVAMP(st.tc40Count, st.tc15Count,
                                            Val(OrZero(st.cnpTxnCount)))])
  /\ pc' = "attached"
  /\ UNCHANGED <<lines, dialect, i, st, inputVars>>

\* The counts are analysed
Analyze ==
  /\ pc = "attached"
  /\ result' = Some([analysis |->
                       analyzeVAMP(st.tc40Count, st.tc15Count, st.cnpTxnCount,
                                   st.acquirerId)] @@ Val(result))
  /\ pc' = "analyzed"
  /\ UNCHANGED <<lines, dialect, i, st, inputVars>>

VAMPNext == AttachRatio \/ Analyze

SpecVAMP == VAMPInit /\ [][VAMPNext]_vars

NoDenominator == IsNull(st.cnpTxnCount) \/ Val(st.cnpTxnCount) = 0

\* C18: when cnpTxnCount is not found or zero, the entry's vampRatio is
\* null and the analysis carries no numeric ratio, no programme status and
\* no risk grade.
C18_NoDenominatorNoVerdict ==
  (pc = "analyzed" /\ NoDenominator) =>
    /\ IsNull(Val(result).vampRatio)
    /\ "ratio" \notin DOMAIN Val(result).analysis
    /\ IsNull(Field(Val(result).analysis, "visaStatus"))
    /\ "riskGrade" \notin DOMAIN Val(result).analysis

\* The half of C18 that holds: no vampRatio without a denominator, and the
\* analysis always says that the count must be greater than zero
C18_NoDenominatorNoMonthlyRatio ==
  (pc = "analyzed" /\ NoDenominator) =>
    /\ IsNull(Val(result).vampRatio)
    /\ "error" \in DOMAIN Val(result).analysis

\* What the analysis of a statement without CNP count says instead
C18_HealthyWithoutDenominator ==
  /\ pc = "analyzed"
  /\ IsNull(st.cnpTxnCount) /\ st.tc15Count = 8 /\ st.tc40Count = 3
  /\ Val(result).analysis.ratio = Ratio(0, 1)
  /\ Val(result).analysis.visaStatus = Some("healthy")
  /\ Val(result).analysis.acquirerStatus = Some("healthy")
  /\ Val(result).analysis.riskGrade = "A"

\* ------------------------------------------------------------------------
\* The fraud count of the dialect extractors (specification Spec)
\* ------------------------------------------------------------------------

FraudLine == "TC40 Fraud Reports 12 $340.00"
HasFraudLine == \E k \in 1..Len(lines) : lines[k] = FraudLine

\* C19: every record parseFirstDataFields or parseChaseFields returns has
\* tc40Count exactly 0, reported as detected, whatever the lines of the
\* document are, fraud lines included.
C19_FraudCountAlwaysZero ==
  ReturnedData =>
    /\ Data.tc40Count = Some(0)
    /\ Val(result).detectedFields.tc40Count
    /\ IsNull(Data.fraudAmountUSD)

\* C19 witness: a record was returned for a document with a fraud line
\* printing 12 reports, and its tc40Count is 0
C19_Witness ==
  /\ ReturnedData
  /\ HasFraudLine
  /\ lines[Len(lines)] = FraudLine
  /\ Data.tc40Count = Some(0)

\* ------------------------------------------------------------------------
\* Specification SpecMonth: detectMonthFromFilename on file names made of a
\* month, a separator and a year, in either order
\* ------------------------------------------------------------------------

\* The pieces of the file names
MonthTexts == {"jan", "april", "Feb", "sept", "03", "13", "q1"}
YearsInNames == {2019, 2020, 2025, 2030, 2031}
NameSeparators == {"", "_", "-", " "}
NamePrefixes == {"", "statement_"}
NameExtensions == {".csv", ".pdf"}

\* The examples of the function's documentation
DocumentedNames ==
  {"statement_jan_2026.csv", "2026-03_report.csv", "april2025.pdf", "2025_Q1_Feb.csv"}

NameOf(c) ==
  c.prefix \o (IF c.monthFirst THEN c.monthText \o c.sep \o ToString(c.year)
               ELSE ToString(c.year) \o c.sep \o c.monthText) \o c.ext

NameCases ==
  [prefix : NamePrefixes, monthText : MonthTexts, sep : NameSeparators,
   year : YearsInNames, monthFirst : BOOLEAN, ext : NameExtensions]

\* The month a piece names, null for a piece that is no month name
monthOfText == [t \in MonthTexts |->
                  IF toLowerCase(t) \in DOMAIN MONTH_MAP
                    THEN Some(MONTH_MAP[toLowerCase(t)]) ELSE null] @@ <<>>

MonthInit ==
  /\ \/ \E c \in NameCases :
          st = [name |-> NameOf(c), monthIndex |-> monthOfText[c.monthText],
                year |-> Some(c.year), sep |-> c.sep]
     \/ \E n \in DocumentedNames \cup {"notes.txt", "summary.pdf"} :
          st = [name |-> n, monthIndex |-> null, year |-> null, sep |-> ""]
  /\ pc = "named"
  /\ result = null
  /\ file = null /\ files = <<>> /\ settled = <<>> /\ hung = {}
  /\ lines = <<>> /\ dialect = "" /\ i = 0

DetectMonth ==
  /\ pc = "named"
  /\ result' = Some(detectMonthFromFilename(st.name))
  /\ pc' = "detected"
  /\ UNCHANGED <<lines, dialect, i, st, inputVars>>

SpecMonth == MonthInit /\ [][DetectMonth]_vars

Detected == Val(result)

\* The name holds a month name and a year of 2020..2030
NamesMonthAndYear ==
  /\ ~IsNull(st.monthIndex) /\ ~IsNull(st.year)
  /\ Val(st.year) >= MinFilenameYear /\ Val(st.year) <= MaxFilenameYear

\* C20: the documented examples give Jan 2026, Mar 2026, Apr 2025 and
\* Feb 2025; a month name and a year of 2020..2030 in the base name, with
\* or without a separator between them, give that month and year; names
\* without anything to infer a month from give null; every result has a
\* monthIndex in 0..11.
C20_DocumentedPatternsRecognised ==
  pc = "detected" =>
    /\ st.name = "statement_jan_2026.csv" => Detected = MonthInfo(2026, 0)
    /\ st.name = "2026-03_report.csv" => Detected = MonthInfo(2026, 2)
    /\ st.name = "april2025.pdf" => Detected = MonthInfo(2025, 3)
    /\ st.name = "2025_Q1_Feb.csv" => Detected = MonthInfo(2025, 1)
    /\ NamesMonthAndYear => Detected = MonthInfo(Val(st.year), Val(st.monthIndex))
    /\ st.name \in {"notes.txt", "summary.pdf"} => IsNull(Detected)
    /\ ~IsNull(Detected) => Val(Detected).monthIndex \in 0..11

\* What does hold: with a separator between month name and year the month
\* and year are found, the other documented examples are recognised, and
\* the monthIndex of a result is in 0..11
C20_SeparatedMonthAndYearRecognised ==
  pc = "detected" =>
    /\ st.name = "statement_jan_2026.csv" => Detected = MonthInfo(2026, 0)
    /\ st.name = "2026-03_report.csv" => Detected = MonthInfo(2026, 2)
    /\ st.name = "2025_Q1_Feb.csv" => Detected = MonthInfo(2025, 1)
    /\ (NamesMonthAndYear /\ st.sep # "") =>
         Detected = MonthInfo(Val(st.year), Val(st.monthIndex))
    /\ (NamesMonthAndYear /\ st.sep = "") => IsNull(Detected)
    /\ st.name \in {"notes.txt", "summary.pdf", "april2025.pdf"} => IsNull(Detected)
    /\ ~IsNull(Detected) => Val(Detected).monthIndex \in 0..11

\* The documented example that is not recognised
C20_UnseparatedNameGivesNull ==
  pc = "detected" /\ st.name = "april2025.pdf" /\ IsNull(Detected)

\* ------------------------------------------------------------------------
\* The per-brand counts of parseFirstDataFields (specification Spec)
\* ------------------------------------------------------------------------

FDReturned == Returned /\ dialect = "firstdata"

\* A field of the returned record, null when no record was returned
Resolved(fld) == IF IsNull(Val(result).data) THEN null ELSE Data[fld]

\* The value the three sources give in their order of priority
ByPriority(cardFound, cardSum, totalRow, categorySum) ==
  IF cardFound /\ cardSum > 0 THEN Some(cardSum)
  ELSE IF ~IsNull(totalRow) THEN totalRow
  ELSE IF categorySum > 0 THEN Some(categorySum)
  ELSE null

\* The rows of the only card-type table of ls that parseFirstDataFields
\* reads as rows of a brand: after the heading at h, before the first line
\* that ends the section or is its Total row
TableEnd(ls, h) ==
  IF \E k \in (h + 1)..Len(ls) : scan[ls[k]].fd.cardSectionEnds \/ IsTotalRowFor("firstdata", ls[k])
    THEN FirstOf({k \in (h + 1)..Len(ls) :
                    scan[ls[k]].fd.cardSectionEnds \/ IsTotalRowFor("firstdata", ls[k])})
    ELSE Len(ls) + 1

OnlyHeadingAt(ls, h) == \A k \in 1..Len(ls) : scan[ls[k]].fd.cardHeading <=> k = h

MCTableRows(ls, h) ==
  {k \in (h + 1)..(TableEnd(ls, h) - 1) :
     IsBrandRowFor("firstdata", ls[k]) /\ scan[ls[k]].fd.isMC}

VisaTableRows(ls, h) ==
  {k \in (h + 1)..(TableEnd(ls, h) - 1) :
     IsBrandRowFor("firstdata", ls[k]) /\ scan[ls[k]].fd.isVisa}

\* C21: parseFirstDataFields returns as mastercardTxnCount (visaTxnCount)
\* the sum of the brand's card-type rows when it is positive, otherwise the
\* brand's TOTAL row of the interchange section when one was found,
\* otherwise the sum of the brand's interchange category lines when it is
\* positive, otherwise null; and in a document with one card-type table
\* holding rows of the brand, the count is the sum of those rows whatever
\* the interchange section says.
C21_BrandCountByPriority ==
  FDReturned =>
    /\ Resolved("mastercardTxnCount") =
         ByPriority(st.mcCardFound, st.mcCardSum, st.mcInterchangeTotal, st.mcInterchangeSum)
    /\ Resolved("visaTxnCount") =
         ByPriority(st.visaCardFound, st.visaCardSum, st.vsInterchangeTotal, st.vsInterchangeSum)
    /\ \A h \in 1..Len(lines) :
         OnlyHeadingAt(lines, h) =>
           /\ MCTableRows(lines, h) # {} =>
                Resolved("mastercardTxnCount") = Some(SumInts(lines, MCTableRows(lines, h)))
           /\ VisaTableRows(lines, h) # {} =>
                Resolved("visaTxnCount") = Some(SumInts(lines, VisaTableRows(lines, h)))

\* C21 witness: the card-type table gives Mastercard 80, the interchange
\* section a MC TOTAL row of 40, and 80 was returned
C21_Witness ==
  /\ FDReturned
  /\ lines = <<"Summary By Card Type", "Mastercard 80 $2,000.00", "Fee Detail",
               "MC TOTAL 40 $12.00">>
  /\ st.mcCardSum = 80 /\ st.mcInterchangeTotal = Some(40)
  /\ Resolved("mastercardTxnCount") = Some(80)

\* The lower sources in use: a total row is preferred to the category sum
C21_TotalRowBeforeCategorySum ==
  /\ FDReturned
  /\ st.mcInterchangeTotal = Some(40) /\ st.mcInterchangeSum = 12 /\ ~st.mcCardFound
  /\ Resolved("mastercardTxnCount") = Some(40)

\* ------------------------------------------------------------------------
\* Warnings of the fallback strategies (specification Spec)
\* ------------------------------------------------------------------------

HasWarning(w) == \E k \in 1..Len(Warnings) : Warnings[k] = w

\* A warning that says the sales count is a sum or an approximation
SalesCountFallbackWarned ==
  \E k \in 1..Len(Warnings) :
    Warnings[k] \in {W_COUNT_FROM_ROWS, W_COUNT_FROM_BRANDS}

\* The sales count of parseFirstDataFields is the sum of the card rows
FDCountFromRows ==
  FDReturned /\ IsNull(st.salesCount) /\ st.cardSectionRowsFound > 0

\* A brand count of parseFirstDataFields comes from the interchange section
MCFromInterchange ==
  FDReturned /\ ~(st.mcCardFound /\ st.mcCardSum > 0)
    /\ (~IsNull(st.mcInterchangeTotal) \/ st.mcInterchangeSum > 0)
VisaFromInterchange ==
  FDReturned /\ ~(st.visaCardFound /\ st.visaCardSum > 0)
    /\ (~IsNull(st.vsInterchangeTotal) \/ st.vsInterchangeSum > 0)

\* The sales count of parseFirstDataFields is approximated from the brands
FDCountFromBrands ==
  FDReturned /\ IsNull(st.salesCount) /\ st.cardSectionRowsFound = 0
    /\ ~IsNull(Resolved("totalSalesCount"))

\* The sales count of parseChaseFields is the sum of the card rows
ChaseCountFromRows ==
  Returned /\ dialect = "chase" /\ IsNull(st.salesCount) /\ st.cardSectionTotal > 0

\* The fallbacks that do push their warning
WarnedFallbacks ==
  /\ MCFromInterchange =>
       HasWarning(IF ~IsNull(st.mcInterchangeTotal) THEN W_MC_FROM_TOTAL ELSE W_MC_FROM_LINES)
  /\ VisaFromInterchange =>
       HasWarning(IF ~IsNull(st.vsInterchangeTotal) THEN W_VISA_FROM_TOTAL ELSE W_VISA_FROM_LINES)
  /\ FDCountFromBrands => HasWarning(W_COUNT_FROM_BRANDS)
  /\ ChaseCountFromRows => HasWarning(W_COUNT_FROM_ROWS)

\* C22: in both extractors every field resolved by a fallback strategy
\* comes with a warning pushed for that fallback: a sales count summed from
\* card-type rows, a brand count taken from the interchange section, a
\* sales count approximated from the brand counts.
C22_FallbackAlwaysWarns ==
  /\ WarnedFallbacks
  /\ FDCountFromRows => SalesCountFallbackWarned

\* What holds: every fallback but the summed sales count of
\* parseFirstDataFields pushes its warning
C22_OtherFallbacksWarn == WarnedFallbacks

\* The summed sales count parseFirstDataFields returns without a word
C22_SilentSum ==
  /\ FDCountFromRows
  /\ lines = <<"Summary By Card Type", "Visa 120 $3,000.00">>
  /\ Resolved("totalSalesCount") = Some(120)
  /\ Warnings = <<W_FD_CB_ABSENT, W_FD_NO_GROSS, W_NO_MC>>

\* ------------------------------------------------------------------------
\* Warnings for the fields no strategy resolved (specification Spec)
\* ------------------------------------------------------------------------

\* Every warning text of the two extractors
ExtractorWarnings ==
  {W_MC_FROM_TOTAL, W_MC_FROM_LINES, W_VISA_FROM_TOTAL, W_VISA_FROM_LINES,
   W_COUNT_FROM_BRANDS, W_FD_CB_AMBIGUOUS, W_FD_CB_ABSENT, W_FD_NO_GROSS,
   W_FD_NO_COUNT, W_NO_MC, W_COUNT_FROM_ROWS, W_CH_CB_AMBIGUOUS, W_CH_CB_ABSENT,
   W_CH_NO_GROSS, W_CH_NO_COUNT}

\* The words by which a warning names a field
FieldWords ==
  [totalSalesVolume |-> {"Gross Volume", "volume"},
   totalSalesCount |-> {"Sales Count", "Sales count", "Transaction count"},
   cnpTxnCount |-> {"CNP", "card-not-present", "Card-not-present"},
   mastercardTxnCount |-> {"Mastercard"},
   visaTxnCount |-> {"Visa"},
   fraudAmountUSD |-> {"fraud", "Fraud"},
   statementPeriod |-> {"period", "Period"}]

WarnedFields == DOMAIN FieldWords

\* The fields each warning names, evaluated once
fieldsNamed ==
  [w \in ExtractorWarnings |-> {f \in WarnedFields : includesAny(w, FieldWords[f])}] @@ <<>>

IsNamed(f) == \E k \in 1..Len(Warnings) : f \in fieldsNamed[Warnings[k]]

\* C23: for totalSalesVolume, totalSalesCount, cnpTxnCount,
\* mastercardTxnCount, visaTxnCount, fraudAmountUSD and statementPeriod, a
\* field no strategy resolved is null in the returned record and a warning
\* naming the field is in the warnings.
C23_UnresolvedFieldIsWarned ==
  Returned =>
    \A f \in WarnedFields :
      ~Val(result).detectedFields[f] =>
        /\ IsNull(Resolved(f))
        /\ IsNamed(f)

\* What holds: an unresolved field is null and detectedFields says so, and
\* a missing gross volume, sales count or Mastercard count has its warning
C23_UnresolvedFieldIsNull ==
  Returned =>
    /\ \A f \in WarnedFields :
         /\ ~Val(result).detectedFields[f] => IsNull(Resolved(f))
         /\ (ReturnedData /\ IsNull(Data[f])) => ~Val(result).detectedFields[f]
    /\ ~Val(result).detectedFields.totalSalesVolume =>
         HasWarning(IF dialect = "firstdata" THEN W_FD_NO_GROSS ELSE W_CH_NO_GROSS)
    /\ ~Val(result).detectedFields.totalSalesCount =>
         HasWarning(IF dialect = "firstdata" THEN W_FD_NO_COUNT ELSE W_CH_NO_COUNT)
    /\ ~Val(result).detectedFields.mastercardTxnCount => HasWarning(W_NO_MC)

\* A record with no Visa count, no period and no fraud amount, and
\* warnings that name none of them
C23_SilentlyMissing ==
  /\ ReturnedData
  /\ lines = <<"Total Gross Sales You Submitted $1,500.00">>
  /\ IsNull(Data.visaTxnCount) /\ IsNull(Data.statementPeriod) /\ IsNull(Data.fraudAmountUSD)
  /\ ~IsNamed("visaTxnCount") /\ ~IsNamed("statementPeriod") /\ ~IsNamed("fraudAmountUSD")

\* ------------------------------------------------------------------------
\* Zero and blank cells of a detected column (specification SpecCSV)
\* ------------------------------------------------------------------------

CSVFulfilled == pc = "settled" /\ CSVHasRows /\ Settlement.status = "fulfilled"

\* Every data row's cell of the column at position k parsed to the number 0
AllCellsZero(k) ==
  \A n \in 1..Len(file.rows.data) : numeric[file.rows.data[n][CSVHeaders[k]]] = Some(0)

\* No cell of the column at position k parsed to a number
NoCellNumeric(k) ==
  \A n \in 1..Len(file.rows.data) : IsNull(numeric[file.rows.data[n][CSVHeaders[k]]])

\* C24: a field whose column was detected is 0 only if every data row's
\* cell of that column parsed to 0; a column whose cells are all blank or
\* unparseable does not give 0.
C24_ZeroOnlyFromZeroCells ==
  CSVFulfilled =>
    \A f \in CSVFieldSet : \A k \in MatchingColumns(f) :
      (IsSelectedColumn(f, k) /\ CSVData[f] = Some(0)) => AllCellsZero(k)

\* What holds: the field of a detected column is the sum of the cells that
\* parsed to a number, 0 when none did
C24_FieldIsSumOfNumericCells ==
  CSVFulfilled =>
    \A f \in CSVFieldSet : \A k \in MatchingColumns(f) :
      IsSelectedColumn(f, k) =>
        /\ CSVData[f] = Some(ColumnTotal(k))
        /\ NoCellNumeric(k) => CSVData[f] = Some(0)

\* A count column with a blank cell only, returned as 0
C24_BlankColumnIsZero ==
  /\ CSVFulfilled
  /\ CSVHeaders = <<"count", "CNP">>
  /\ Len(file.rows.data) = 1
  /\ file.rows.data[1]["count"] = "" /\ file.rows.data[1]["CNP"] = "5"
  /\ CSVData.totalSalesCount = Some(0)
  /\ Settlement.value.detectedFields.totalSalesCount


\* ------------------------------------------------------------------------
\* The format warning of parsePDFStatement
\* ------------------------------------------------------------------------

\* parsePDFStatement returned after format detection and dispatch
Dispatched == pc = "done" /\ file.readable /\ ~IsScanned(lines)

\* The format detectStatementFormat gave for the extracted lines
DetectedFormat == Outcome.detectedFormat

\* The format warning is the first element of the returned warnings
FormatWarningFirst ==
  /\ Len(Outcome.warnings) >= 1
  /\ Outcome.warnings[1] = W_FORMAT_UNSURE

\* The format warning is an element of the returned warnings
FormatWarningPresent ==
  \E k \in 1..Len(Outcome.warnings) : Outcome.warnings[k] = W_FORMAT_UNSURE

\* C25: whenever the format of a PDF with at least one line is 'unknown',
\* the returned warnings have the 'format not definitively identified'
\* warning as first element, ahead of every extractor warning; whenever the
\* format is 'firstdata' or 'chase' that warning is absent.
C25_FormatWarningFirstWhenUnknown ==
  Dispatched =>
    /\ (DetectedFormat = "unknown" => FormatWarningFirst)
    /\ (DetectedFormat \in {"firstdata", "chase"} => ~FormatWarningPresent)

\* What holds: the warning leads the list exactly when the format is
\* unknown and the kept result carries data; it appears nowhere else
C25_FormatWarningFirstWhenData ==
  Dispatched =>
    /\ (DetectedFormat = "unknown" /\ ~IsNull(Outcome.data) => FormatWarningFirst)
    /\ (DetectedFormat = "unknown" /\ IsNull(Outcome.data) => ~FormatWarningPresent)
    /\ (DetectedFormat \in {"firstdata", "chase"} => ~FormatWarningPresent)

\* An unknown format whose kept result has no data: extractor warnings only
C25_UnknownWithoutData ==
  /\ Dispatched
  /\ DetectedFormat = "unknown"
  /\ IsNull(Outcome.data)
  /\ Len(Outcome.warnings) >= 1
  /\ ~FormatWarningPresent


\* ------------------------------------------------------------------------
\* extractPDFLines: text runs to lines
\* ------------------------------------------------------------------------

\* Math.abs(it.y - cur.y) > 3: the y tolerance of one line
LineTolerance == 3

\* Runs per page and pages per document
MaxRuns == 3
MaxPages == 2

Abs(n) == IF n < 0 THEN 0 - n ELSE n

\* A text run of pdf.js: transform[4], transform[5] and str
RunXs == {1, 2}
RunYs == {6, 7, 10}
RunStrs == {" B  C "}
BlankRun == [x |-> 1, y |-> 7, text |-> " "]
Runs == [x : RunXs, y : RunYs, text : RunStrs] \cup {BlankRun}

\* textContent.items of a page
Pages == SeqsUpTo(Runs, MaxRuns)

\* The pages after the first: no text, or one run
FurtherPages == {<<>>, <<[x |-> 2, y |-> 7, text |-> " B  C "]>>}

RunDocuments ==
  {<<p>> \o t : p \in Pages, t \in SeqsUpTo(FurtherPages, MaxPages - 1)}

\* .filter((it) => it.str?.trim())
IsTextRun(it) == trim(it.text) # ""

KeptOf[its \in Seq(Runs)] ==
  IF its = <<>> THEN <<>>
  ELSE (IF IsTextRun(its[1]) THEN <<its[1]>> ELSE <<>>) \o KeptOf[Tail(its)]

\* (a, b) => b.y - a.y || a.x - b.x, negative: a sorts before b
ReadingOrder(a, b) == a.y > b.y \/ (a.y = b.y /\ a.x < b.x)

\* Mutant of LeftToRight: the runs of a group are sorted right to left
RightToLeft(a, b) == a.x > b.x

\* (a, b) => a.x - b.x, negative: a sorts before b
LeftToRight(a, b) == a.x < b.x

Before(a, b, byRow) == IF byRow THEN ReadingOrder(a, b) ELSE LeftToRight(a, b)

\* Array.prototype.sort is stable: an element goes in front of the first
\* element it sorts before
InsertSorted(sorted, e, byRow) ==
  LET later == {k \in 1..Len(sorted) : Before(e, sorted[k], byRow)}
      at == IF later = {} THEN Len(sorted) + 1 ELSE FirstOf(later)
  IN SubSeq(sorted, 1, at - 1) \o <<e>> \o SubSeq(sorted, at, Len(sorted))

SortedOf[its \in Seq(Runs), byRow \in BOOLEAN] ==
  IF its = <<>> THEN <<>>
  ELSE InsertSorted(SortedOf[SubSeq(its, 1, Len(its) - 1), byRow], its[Len(its)], byRow)

\* const items = textContent.items.filter(...).map(...).sort(...)
Items(page) == SortedOf[KeptOf[page], TRUE]

\* Mutant of StartsGroup: the run is compared with the previous run
StartsGroupAfterPrevious(groups, it) ==
  \/ groups = <<>>
  \/ LET cur == groups[Len(groups)]
     IN Abs(it.y - cur.items[Len(cur.items)].y) > LineTolerance

\* !cur || Math.abs(it.y - cur.y) > 3
StartsGroup(groups, it) ==
  \/ groups = <<>>
  \/ Abs(it.y - groups[Len(groups)].y) > LineTolerance

\* One turn of `for (const it of items)`
GroupStep(groups, it) ==
  IF StartsGroup(groups, it)
    THEN Append(groups, [y |-> it.y, items |-> <<it>>])
    ELSE [groups EXCEPT ![Len(groups)].items = Append(@, it)]

GroupsOf[its \in Seq(Runs)] ==
  IF its = <<>> THEN <<>>
  ELSE GroupStep(GroupsOf[SubSeq(its, 1, Len(its) - 1)], its[Len(its)])

\* g.items.sort((a, b) => a.x - b.x)
SortGroup(g) == [g EXCEPT !.items = SortedOf[@, FALSE]]

\* The groups of a page, each sorted left to right
PageGroups(page) ==
  LET groups == GroupsOf[Items(page)]
  IN [k \in 1..Len(groups) |-> SortGroup(groups[k])]

\* g.items.map((i) => i.text).join(' ')
JoinedOf[its \in Seq(Runs)] ==
  IF its = <<>> THEN ""
  ELSE IF Len(its) = 1 THEN its[1].text
  ELSE its[1].text \o " " \o JoinedOf[Tail(its)]

\* .replace(/\s{2,}/g, ' ')
collapseOf[s \in STRING] ==
  IF s = "" THEN ""
  ELSE IF PrefixSpan(s, IsSpace) >= 2
    THEN " " \o collapseOf[From(s, PrefixSpan(s, IsSpace) + 1)]
  ELSE CharAt(s, 1) \o collapseOf[From(s, 2)]

\* const line = g.items.map(...).join(' ').replace(/\s{2,}/g, ' ').trim()
LineOf(g) == trim(collapseOf[JoinedOf[g.items]])

\* if (line) allLines.push(line), for every group of the page
PushGroupsOf[gs \in Seq([y : RunYs, items : Seq(Runs)]), all \in Seq(STRING)] ==
  IF gs = <<>> THEN all
  ELSE PushGroupsOf[Tail(gs), PushIf(all, LineOf(gs[1]) # "", LineOf(gs[1]))]

LinesInit ==
  /\ file \in {[name |-> PDFName, pages |-> d] : d \in RunDocuments}
  /\ i = 1
  /\ lines = <<>>
  /\ st = <<>>
  /\ pc = "pages"
  /\ result = null
  /\ dialect = ""
  /\ files = <<>> /\ settled = <<>> /\ hung = {}

\* if (!textContent.items.length) continue
SkipPage ==
  /\ pc = "pages" /\ i <= Len(file.pages)
  /\ file.pages[i] = <<>>
  /\ st' = Append(st, <<>>)
  /\ i' = i + 1
  /\ UNCHANGED <<lines, dialect, result, pc, inputVars>>

\* One page of the loop: items, groups, lines pushed
ReadPage ==
  /\ pc = "pages" /\ i <= Len(file.pages)
  /\ file.pages[i] # <<>>
  /\ st' = Append(st, PageGroups(file.pages[i]))
  /\ lines' = PushGroupsOf[st'[i], lines]
  /\ i' = i + 1
  /\ UNCHANGED <<dialect, result, pc, inputVars>>

\* return allLines
ReturnLines ==
  /\ pc = "pages" /\ i > Len(file.pages)
  /\ result' = Some(lines)
  /\ pc' = "done"
  /\ UNCHANGED <<lines, dialect, i, st, inputVars>>

LinesNext == SkipPage \/ ReadPage \/ ReturnLines

SpecLines == LinesInit /\ [][LinesNext]_vars


\* The pages read so far, and the groups built for page p
PagesRead == 1..Len(st)
GroupsOfPage(p) == st[p]

\* All runs of the groups of a page, group after group
FlatRunsOf[gs \in Seq([y : RunYs, items : Seq(Runs)])] ==
  IF gs = <<>> THEN <<>> ELSE gs[1].items \o FlatRunsOf[Tail(gs)]

\* How often a run occurs in a sequence of runs
Occurrences(its, r) == Cardinality({k \in 1..Len(its) : its[k] = r})

\* The runs of page p that are not whitespace-only, as pdf.js gave them
TextRunsOfPage(p) == KeptOf[file.pages[p]]

\* C26: after whitespace-only runs are dropped, every remaining run of a
\* page lands in exactly one reconstructed line; a run joins the current
\* group exactly when its y is within 3 of the group's anchor (the y of the
\* group's first run), so all runs of a line lie within 3 units of its
\* anchor and the anchors of consecutive lines of a page differ by more
\* than 3.
C26_RunsGroupedByAnchor ==
  \A p \in PagesRead :
    LET gs == GroupsOfPage(p)
    IN /\ Len(FlatRunsOf[gs]) = Len(TextRunsOfPage(p))
       /\ \A r \in {file.pages[p][n] : n \in 1..Len(file.pages[p])} :
            Occurrences(FlatRunsOf[gs], r) = Occurrences(TextRunsOfPage(p), r)
       /\ \A k \in 1..Len(gs) :
            /\ gs[k].items # <<>>
            /\ \E n \in 1..Len(gs[k].items) : gs[k].items[n].y = gs[k].y
            /\ \A n \in 1..Len(gs[k].items) :
                 /\ gs[k].items[n].y <= gs[k].y
                 /\ Abs(gs[k].items[n].y - gs[k].y) <= LineTolerance
       /\ \A k \in 1..(Len(gs) - 1) :
            /\ Abs(gs[k + 1].y - gs[k].y) > LineTolerance
            /\ \A n \in 1..Len(gs[k + 1].items) :
                 Abs(gs[k + 1].items[n].y - gs[k].y) > LineTolerance

\* A run within 3 of the run before it but further than 3 from that run's
\* anchor starts a line of its own
C26_Witness ==
  /\ pc = "done"
  /\ \E p \in PagesRead :
       /\ Len(GroupsOfPage(p)) = 2
       /\ Len(GroupsOfPage(p)[1].items) = 2
       /\ GroupsOfPage(p)[1].y = 10
       /\ GroupsOfPage(p)[2].y = 6
       /\ \E n \in 1..2 : GroupsOfPage(p)[1].items[n].y = 7

\* The tokens of the texts of a sequence of runs, run after run
TokensOf[its \in Seq(Runs)] ==
  IF its = <<>> THEN <<>> ELSE splitWS(its[1].text) \o TokensOf[Tail(its)]

\* Lines pushed for the pages before page p
LinesBefore[p \in Nat] ==
  IF p <= 1 THEN 0 ELSE LinesBefore[p - 1] + Len(st[p - 1])

\* No two neighbouring whitespace characters, none at either end
SingleSpaced(line) ==
  /\ line # ""
  /\ ~IsSpace(CharAt(line, 1)) /\ ~IsSpace(CharAt(line, Len(line)))
  /\ \A k \in 1..(Len(line) - 1) :
       ~(IsSpace(CharAt(line, k)) /\ IsSpace(CharAt(line, k + 1)))

InWalk(d) == dialect = d /\ pc \in {"loop", "done"}

\* The line the walk has just passed
LastLine == lines[i]

\* C28: at every step of the line walk each dialect extractor is in at most
\* one section: in parseFirstDataFields inCardTypeSection and
\* inInterchangeSection are never both true, and in parseChaseFields
\* inCardSection and inSummarySection are never both true.
C28_AtMostOneSection ==
  /\ (InWalk("firstdata") => ~(st.inCardTypeSection /\ st.inInterchangeSection))
  /\ (InWalk("chase") => ~(st.inCardSection /\ st.inSummarySection))

\* The card-type heading is met while the interchange section is open and
\* closes it
C28_Witness ==
  /\ InWalk("firstdata") /\ i >= 2
  /\ lines[i - 1] = "Fee Detail" /\ LastLine = "Summary By Card Type"
  /\ st.inCardTypeSection /\ ~st.inInterchangeSection

\* The card section of parseChaseFields opens while the summary section is
\* open and closes it
C28_ChaseSectionsSwitch ==
  /\ InWalk("chase") /\ i >= 2
  /\ scan[lines[i - 1]].ch.summaryStart /\ scan[LastLine].ch.cardStart
  /\ st.inCardSection /\ ~st.inSummarySection


\* ------------------------------------------------------------------------
\* Gross volume and statement period over the walk
\* ------------------------------------------------------------------------

\* A positive amount, else nothing
PositiveOrNull(val) == IF ~IsNull(val) /\ Val(val) > 0 THEN val ELSE null

\* The first of the given amounts that is present
FirstPresent(a, b, c) == IF ~IsNull(a) THEN a ELSE IF ~IsNull(b) THEN b ELSE c

\* The gross volume line n of the document offers by itself, whatever was
\* read before it: in parseFirstDataFields a label line with its amount on
\* the line or on one of the next two; in parseChaseFields a line that is no
\* section heading, either a label line with its amount on the line or the
\* next, or failing that a "Sales" row with its amount within two lines
GrossOffered(d, sc, n) ==
  IF d = "firstdata"
    THEN IF sc[n].fd.gross
           THEN PositiveOrNull(FirstPresent(sc[n].fd.dollar, DollarOf(sc, n), DollarOf(sc, n + 1)))
           ELSE null
  ELSE IF sc[n].ch.summaryStart \/ sc[n].ch.cardStart THEN null
  ELSE LET byLabel ==
             IF sc[n].ch.gross
               THEN PositiveOrNull(FirstPresent(sc[n].ch.dollar, DollarOf(sc, n), null))
               ELSE null
       IN IF ~IsNull(byLabel) THEN byLabel
          ELSE IF sc[n].ch.salesRow
            THEN PositiveOrNull(FirstPresent(sc[n].ch.dollar, DollarOf(sc, n), DollarOf(sc, n + 1)))
            ELSE null

\* The statement period line n offers by itself
PeriodOffered(d, sc, n) == IF d = "firstdata" THEN sc[n].fd.period ELSE sc[n].ch.period

\* The lines passed so far that offer a gross volume, a statement period
GrossHits == {n \in 1..i : ~IsNull(GrossOffered(dialect, Scanned(lines), n))}
PeriodHits == {n \in 1..i : ~IsNull(PeriodOffered(dialect, Scanned(lines), n))}

\* What the first offering line offers
FirstGross ==
  IF GrossHits = {} THEN null ELSE GrossOffered(dialect, Scanned(lines), FirstOf(GrossHits))
FirstPeriod ==
  IF PeriodHits = {} THEN null ELSE PeriodOffered(dialect, Scanned(lines), FirstOf(PeriodHits))

\* C29: in both dialect extractors gross volume and statement period are
\* first-match-wins and independent of section state: at every point of the
\* walk each is what the first line offering it offers, a function of the
\* lines alone, so no later line and no section transition changes it and
\* the section the line falls in plays no part; the returned fields are the
\* walk's values; a resolved gross volume is always > 0.
C29_GrossAndPeriodFirstMatchWins ==
  (dialect \in {"firstdata", "chase"} /\ pc \in {"loop", "done"}) =>
    /\ st.grossVolume = FirstGross
    /\ st.statementPeriod = FirstPeriod
    /\ (~IsNull(st.grossVolume) => Val(st.grossVolume) > 0)
    /\ (ReturnedData =>
          /\ Data.totalSalesVolume = st.grossVolume
          /\ Data.statementPeriod = st.statementPeriod)

\* Inside the card-type section, after both values were resolved, a second
\* label line with another amount and a second period line were passed
C29_Witness ==
  /\ dialect = "firstdata" /\ pc = "done" /\ Len(lines) = 4
  /\ lines[1] = "Summary By Card Type"
  /\ st.inCardTypeSection
  /\ Cardinality(GrossHits) + Cardinality(PeriodHits) >= 3
  /\ lines[2] = "Total Gross Sales You Submitted $2,750.00"
  /\ Data.totalSalesVolume = FirstGross
  /\ \E n \in GrossHits : GrossOffered(dialect, Scanned(lines), n) # FirstGross

\* parseChaseFields: the "Sales" row inside the card section resolves the
\* gross volume
C29_ChaseSalesRowInCardSection ==
  /\ dialect = "chase" /\ pc = "done"
  /\ lines = <<"Summary By Card Type", "Sales 1,234 $123,456.78">>
  /\ st.grossVolume = Some(12345678)


\* ------------------------------------------------------------------------
\* Specification SpecUpload: the upload component's entries list.  st is the
\* component state; files holds the files uploaded so far whose name was
\* not uploaded again or removed since; i counts the handler calls.
\* ------------------------------------------------------------------------

\* Most files of one handleFiles call, most handler calls
MaxBatch == 2
MaxCalls == 3

\* The files a user drops: a CSV, a later export under the same name, a
\* scanned PDF, a CSV without data rows and a text file
UploadFiles ==
  {File("feb_2026.csv", "text/csv", TRUE, "", <<>>,
        [fields |-> <<"Chargebacks">>, data |-> <<[Chargebacks |-> "5"]>>]),
   File("feb_2026.csv", "text/csv", TRUE, "", <<>>,
        [fields |-> <<"Chargebacks">>, data |-> <<[Chargebacks |-> "45"]>>]),
   File("scan_apr_2026.pdf", "application/pdf", TRUE, "", <<>>, <<>>),
   File("empty_2026_05.csv", "text/csv", TRUE, "", <<>>,
        [fields |-> <<"count", "CNP">>, data |-> <<>>]),
   File("notes.txt", "text/plain", TRUE, "", <<>>, <<>>)}

\* Each file's task, evaluated once
uploadTask == [f \in UploadFiles |-> FileTask(f)] @@ <<>>

\* await parseStatements(Array.from(newFiles))
parseStatements(newFiles) ==
  parseStatementsReturn([k \in 1..Len(newFiles) |-> uploadTask[newFiles[k]]]).value

\* e.filename, undefined (null) on an entry without the property
FilenameOf(e) == IF "filename" \in DOMAIN e THEN Some(e.filename) ELSE null

\* existingMap.set(p.filename, p): a present key keeps its place and takes
\* the new value, a new key goes last.  The map is the list of its values.
MapSet(map, e) ==
  LET at == {k \in 1..Len(map) : FilenameOf(map[k]) = FilenameOf(e)}
  IN IF at = {} THEN Append(map, e) ELSE [map EXCEPT ![FirstOf(at)] = e]

RECURSIVE SetEach(_, _, _)
SetEach(map, es, n) == IF n = 0 THEN map ELSE MapSet(SetEach(map, es, n - 1), es[n])

\* new Map(prev.map(...)), set of every parsed entry, Array.from(values())
MergeEntries(prev, parsed) ==
  SetEach(SetEach(<<>>, prev, Len(prev)), parsed, Len(parsed))

\* prev.filter((e) => e.filename !== filename)
WithoutEntry(prev, filename) ==
  LET keep == {k \in 1..Len(prev) : FilenameOf(prev[k]) # filename}
      nth[n \in 0..Len(prev)] ==
        IF n = 0 THEN <<>>
        ELSE IF n \in keep THEN Append(nth[n - 1], prev[n]) ELSE nth[n - 1]
  IN nth[Len(prev)]

\* The names of the files of a call
NamesOf(newFiles) == {newFiles[k].name : k \in 1..Len(newFiles)}

\* The file of each name that comes last in the call
NewestOf(newFiles) ==
  {newFiles[k] : k \in {n \in 1..Len(newFiles) :
                          \A m \in (n + 1)..Len(newFiles) : newFiles[m].name # newFiles[n].name}}

UploadInit ==
  /\ st = [entries |-> <<>>, parsing |-> FALSE, error |-> null]
  /\ files = {}
  /\ i = 0
  /\ pc = "mounted"
  /\ result = null
  /\ lines = <<>> /\ dialect = ""
  /\ file = null /\ settled = <<>> /\ hung = {}

\* handleFiles(newFiles) with at least one file, through its finally block
\* (parseStatements never rejects, so the catch block is not entered)
handleFiles ==
  /\ pc = "mounted" /\ i < MaxCalls
  /\ \E newFiles \in SeqsUpTo(UploadFiles, MaxBatch) :
       /\ Len(newFiles) > 0
       /\ st' = [entries |-> MergeEntries(st.entries, parseStatements(newFiles)),
                 parsing |-> FALSE,
                 error |-> null]
       /\ files' = {f \in files : f.name \notin NamesOf(newFiles)} \cup NewestOf(newFiles)
  /\ i' = i + 1
  /\ UNCHANGED <<lines, dialect, result, pc, file, settled, hung>>

\* removeEntry(entry.filename), from the remove button of a listed entry
removeEntry ==
  /\ pc = "mounted" /\ i < MaxCalls
  /\ \E k \in 1..Len(st.entries) :
       /\ st' = [st EXCEPT !.entries = WithoutEntry(@, FilenameOf(st.entries[k]))]
       /\ files' = {f \in files : Some(f.name) # FilenameOf(st.entries[k])}
  /\ i' = i + 1
  /\ UNCHANGED <<lines, dialect, result, pc, file, settled, hung>>

UploadNext == handleFiles \/ removeEntry

SpecUpload == UploadInit /\ [][UploadNext]_vars

\* The listed entries that carry the name of the file
ListedAs(f) == {k \in 1..Len(st.entries) : FilenameOf(st.entries[k]) = Some(f.name)}

\* The file's task fulfils: its entry carries the file's name
TaskFulfilled(f) == uploadTask[f].status = "fulfilled"

\* C30 (as claimed): after any sequence of handleFiles batches and
\* removeEntry calls, the entries list holds exactly one entry per distinct
\* uploaded file that has not been removed (deduplicated by filename, newer
\* upload wins): no uploaded file, one whose parsing failed included, is
\* missing from the list or merged with a different file's entry.
C30_OneEntryPerUploadedFile ==
  pc = "mounted" =>
    /\ Len(st.entries) = Cardinality(files)
    /\ \A f \in files : Cardinality(ListedAs(f)) = 1

\* What holds: every file whose task fulfils is listed exactly once, with
\* the entry of its newest upload; the files whose task rejects share at
\* most one entry, which carries no filename
C30_FulfilledFilesListedOnce ==
  pc = "mounted" =>
    /\ \A f \in files :
         IF TaskFulfilled(f)
           THEN /\ Cardinality(ListedAs(f)) = 1
                /\ \A k \in ListedAs(f) : st.entries[k] = uploadTask[f].value
           ELSE ListedAs(f) = {}
    /\ Cardinality({k \in 1..Len(st.entries) : IsNull(FilenameOf(st.entries[k]))}) <= 1
    /\ \A k \in 1..Len(st.entries) :
         \/ IsNull(FilenameOf(st.entries[k]))
         \/ \E f \in files : k \in ListedAs(f)

\* Two files whose parsing failed were uploaded and are not removed; the
\* list shows a single entry, without a filename
C30_FailedFilesMerged ==
  /\ pc = "mounted"
  /\ Cardinality({f \in files : ~TaskFulfilled(f)}) = 2
  /\ Len(st.entries) = 1
  /\ IsNull(FilenameOf(st.entries[1]))

====
